---------------------------- MODULE Spec2Model ----------------------------
(***************************************************************************)
(* The request broker of the wallet: InternalEthereumProviderService       *)
(* (per-origin active network, JSON-RPC method routing, the approval       *)
(* promises handed to the UI) and the entry of WalletConnect session       *)
(* requests into it.                                                       *)
(*                                                                         *)
(* A request is a record whose pc says where its asynchronous handler is   *)
(* suspended; every await of the handler that reads or writes shared state *)
(* (the per-origin table, the gateway's active networks) ends an action.   *)
(***************************************************************************)
EXTENDS Integers, Sequences, FiniteSets, TLC

VARIABLES
  reqs,            \* slot -> request record (pc = "idle": the slot is free)
  db,              \* InternalEthereumProviderDatabase: origin -> network
  activeNetworks,  \* the networks ChainService.getActiveNetworks() returns
  senderUrl,       \* WalletConnectService.senderUrl
  sessions,        \* protocol -> the client of that protocol and its latest proposal
  proposalOrigin,  \* the origin under which the provider bridge handles the
                   \* latest proposal's eth_requestAccounts ("none": no proposal reached it)
  connection,      \* the latest performConnection call and how it ended
  abilities        \* AbilitiesService: the feature flag, AbilitiesDatabase and
                   \* the pollForAbilities calls in flight

vars == <<reqs, db, activeNetworks, senderUrl, proposalOrigin, sessions, connection,
          abilities>>

(***************************************************************************)
(* Bounds of the model.                                                    *)
(***************************************************************************)
\* Invocations of the two handles of one approval the UI may make.
MaxHandleCalls == 2
\* Messages the provider bridge may post on the port of one proposal.
MaxPortMessages == 2

(***************************************************************************)
(* Values.                                                                 *)
(***************************************************************************)
\* A missing key / JavaScript undefined.
Absent == "absent"

TALLY_INTERNAL_ORIGIN == "@tally-internal"
DappOrigins == {"https://dapp-a", "https://dapp-b"}
Origins == {TALLY_INTERNAL_ORIGIN} \cup DappOrigins

\* A chain id as a string: decimal ("137") or hex ("0x89").
ChainIdStr(fmt, n) == [fmt |-> fmt, n |-> n]
NoChain == ChainIdStr("none", 0)

NoNetwork == [name |-> "none", chainID |-> NoChain]
ETHEREUM == [name |-> "Ethereum", chainID |-> ChainIdStr("dec", 1)]
POLYGON == [name |-> "Polygon", chainID |-> ChainIdStr("dec", 137)]
\* The networks the gateway can activate (999 is the chain id of none of them).
SupportedNetworks == {ETHEREUM, POLYGON}

\* A JavaScript value handed to a caller: a tag, a string and a number.
Val(tag, s, n) == [tag |-> tag, s |-> s, n |-> n]
NoVal == Val("none", "", 0)
Undefined == Val("undefined", "", 0)
Null == Val("null", "", 0)
EIP1193Error(code) == Val("EIP1193Error", code, 0)
JsError(kind) == Val(kind, "", 0)

\* A promise: pending, or settled once with a value or a reason.
Pending == [state |-> "pending", val |-> NoVal]
Fulfilled(v) == [state |-> "fulfilled", val |-> v]
Rejected(v) == [state |-> "rejected", val |-> v]

(***************************************************************************)
(* routeSafeRPCRequest's case labels.                                      *)
(***************************************************************************)
TypedDataMethods ==
  {"eth_signTypedData", "eth_signTypedData_v1", "eth_signTypedData_v3",
   "eth_signTypedData_v4"}

PassThroughMethods ==
  {"eth_blockNumber", "eth_call", "eth_estimateGas", "eth_feeHistory",
   "eth_gasPrice", "eth_getBalance", "eth_getBlockByHash",
   "eth_getBlockByNumber", "eth_getBlockTransactionCountByHash",
   "eth_getBlockTransactionCountByNumber", "eth_getCode",
   "eth_getFilterChanges", "eth_getFilterLogs", "eth_getLogs",
   "eth_getProof", "eth_getStorageAt",
   "eth_getTransactionByBlockHashAndIndex",
   "eth_getTransactionByBlockNumberAndIndex", "eth_getTransactionByHash",
   "eth_getTransactionCount", "eth_getTransactionReceipt",
   "eth_getUncleByBlockHashAndIndex", "eth_getUncleByBlockNumberAndIndex",
   "eth_getUncleCountByBlockHash", "eth_getUncleCountByBlockNumber",
   "eth_maxPriorityFeePerGas", "eth_newBlockFilter", "eth_newFilter",
   "eth_newPendingTransactionFilter", "eth_protocolVersion",
   "eth_sendRawTransaction", "eth_subscribe", "eth_syncing",
   "eth_uninstallFilter", "eth_unsubscribe", "net_listening", "net_version",
   "web3_clientVersion", "web3_sha3"}

TransactionMethods == {"eth_sendTransaction", "eth_signTransaction"}
SignDataMethods == {"eth_sign", "personal_sign"}
SwitchChainMethods == {"wallet_addEthereumChain", "wallet_switchEthereumChain"}

\* The labels that share the default branch.
ListedUnsupportedMethods ==
  {"metamask_getProviderState", "metamask_sendDomainMetadata",
   "wallet_requestPermissions", "wallet_watchAsset", "estimateGas",
   "eth_coinbase", "eth_decrypt", "eth_getEncryptionPublicKey",
   "eth_getWork", "eth_hashrate", "eth_mining", "eth_submitHashrate",
   "eth_submitWork", "metamask_accountsChanged", "metamask_chainChanged",
   "metamask_logWeb3ShimUsage", "metamask_unlockStateChanged",
   "metamask_watchAsset", "net_peerCount", "wallet_accountsChanged",
   "wallet_registerOnboarding"}

\* Names with no case label at all.
UnknownMethods == {"eth_requestAccounts", "foo_bar"}

(***************************************************************************)
(* Wire parameters.  One record shape for every method: the fields of a    *)
(* JsonRpcTransactionRequest (params[0] of the transaction methods), the   *)
(* positional params p0/p1 of the signing methods, and the chainId of a    *)
(* SwitchEthereumChainParameter.                                           *)
(***************************************************************************)
NoWire ==
  [from |-> Absent, data |-> Absent, input |-> Absent, gas |-> Absent,
   gasLimit |-> Absent, nonce |-> Absent, annotation |-> Absent,
   p0 |-> Absent, p1 |-> Absent, chainId |-> NoChain]

AnnotationJson == "{\"warnings\":[]}"
BadJson == "{not json"
TypedJson == "{\"primaryType\":\"Mail\"}"
Account == "0xA11ce"

\* Every combination of present and missing transaction fields.
TxWiresAll ==
  { [NoWire EXCEPT !.from = f, !.data = d, !.input = i, !.gas = g,
                   !.gasLimit = gl, !.nonce = n, !.annotation = a] :
      f \in {Absent, Account}, d \in {Absent, "0xd1"},
      i \in {Absent, "0xd1", "0xabc"}, g \in {Absent, "0x5208"},
      gl \in {Absent, "0x9999"}, n \in {Absent, "0x5"},
      a \in {Absent, AnnotationJson, BadJson} }

\* A few transaction requests for the runs in which everything else varies.
TxWiresSmall ==
  { [NoWire EXCEPT !.from = Account, !.input = "0xabc", !.gas = "0x5208",
                   !.nonce = "0x5", !.annotation = AnnotationJson],
    [NoWire EXCEPT !.data = "0xd1"] }

Messages == {"0xdead", "hello"}

ChainParams ==
  {ChainIdStr("hex", 1), ChainIdStr("dec", 1), ChainIdStr("hex", 137),
   ChainIdStr("hex", 999)}

\* The parameters a request for `method` is drawn from.
WiresFor(method, txWires) ==
  CASE method \in TransactionMethods -> txWires
    [] method = "eth_sign" ->
         {[NoWire EXCEPT !.p0 = Account, !.p1 = m] : m \in Messages}
    [] method = "personal_sign" ->
         {[NoWire EXCEPT !.p0 = m, !.p1 = Account] : m \in Messages}
    [] method \in TypedDataMethods ->
         {[NoWire EXCEPT !.p0 = Account, !.p1 = t] : t \in {TypedJson, BadJson}}
    [] method \in SwitchChainMethods ->
         {[NoWire EXCEPT !.chainId = c] : c \in ChainParams}
    [] method \in PassThroughMethods ->
         {[NoWire EXCEPT !.p0 = p] : p \in {"0xd1", "latest"}}
    [] OTHER -> {NoWire}

(***************************************************************************)
(* Pure helpers.                                                           *)
(***************************************************************************)
\* networks.toHexChainID: a decimal or hex chain id, as hex.
toHexChainID(chainID) == ChainIdStr("hex", chainID.n)

\* lib/utils.decodeJSON and JSON.parse: the parsed value, or a SyntaxError.
JsonParses(s) == s \in {AnnotationJson, TypedJson}
decodeJSON(s) == IF s = AnnotationJson THEN "annotation{warnings:[]}"
                 ELSE IF s = TypedJson THEN "typedData{Mail}"
                 ELSE "SyntaxError"

\* signData's hexInput: hex input as it is, anything else as its UTF-8 bytes.
IsHexString(s) == s \in {"0xdead", "0x", "0xabc", "0xd1"}
hexlifyUtf8(s) == IF s = "hello" THEN "0x68656c6c6f" ELSE "0x"
hexInput(input) == IF IsHexString(input) THEN input ELSE hexlifyUtf8(input)

\* What the UI hands to a resolver: a signed transaction or a signature.
SignedTxs == {"signedTx-1", "signedTx-2"}
Signatures == {"sig-1", "sig-2"}
HashOf(signed) == Val("hash", signed, 0)
serializeEthersTransaction(signed) == Val("rlp", signed, 0)

(***************************************************************************)
(* The request record.                                                     *)
(***************************************************************************)
NoPayload ==
  [from |-> Absent, data |-> Absent, gasLimit |-> Absent, nonce |-> Absent,
   annotation |-> Absent, network |-> NoNetwork, address |-> Absent,
   rawSigningData |-> Absent, typedData |-> Absent]

\* A response to a session request: the client it was posted through, whether
\* it approves or rejects, and the result an approval carries.
NoWcResponse == [channel |-> "none", kind |-> "none", payload |-> NoVal]

\* The arguments of a chainService.send(method, params, network) call.
NoCall == [method |-> "none", params |-> NoWire, network |-> NoNetwork]

IdleReq ==
  [pc |-> "idle",
   path |-> "none",          \* "port" | "bridge" | "wc": how the request came in
   method |-> "none", origin |-> "none", wire |-> NoWire,
   event |-> "none",         \* the UI event emitted for it
   payload |-> NoPayload,    \* that event's payload
   approval |-> Pending,     \* the promise whose resolve/reject the UI holds
   calls |-> 0,              \* invocations of those two handles so far
   result |-> Pending,       \* the promise routeSafeRPCRequest returned
   found |-> NoNetwork,      \* getActiveNetworkByChainId's answer
   activation |-> "none",    \* activateNetworkOrThrow for it: "none" | "activated" | "failed"
   sends |-> 0,              \* chainService.send calls made for it
   broadcasts |-> 0,         \* chainService.broadcastSignedTransaction calls
   wrote |-> FALSE,          \* db.setActiveChainIdForOrigin was called for it
   prior |-> NoNetwork,      \* the origin's selection which that call replaced
   routedNetwork |-> NoNetwork,  \* the resolver's answer in the state of the routing
   selected |-> "none",      \* what preferenceService.getSelectedAccount settled with
   gatewayCall |-> NoCall,   \* the arguments of the chainService.send call made for it
   response |-> NoVal,       \* the result posted back on the port the request came in on
   id |-> "none",            \* the id of the port message that carried the request
   posting |-> "returns",    \* what internalProviderPort.postResponse does for it
   posts |-> 0,              \* postResponse calls made for the message
   delivered |-> <<>>,       \* the responses that reached the port's listeners
   protocol |-> "none",      \* "v1" | "v2": the client a session request came from
   portUrl |-> "none",       \* the sender URL of the port made for a session request
   sessionUrl |-> "none",    \* the URL the proposal of the request's own session supplied
   wcResponse |-> NoWcResponse]  \* the response posted to the WalletConnect peer

\* The slots of this run; SlotIds are the slots a run may have.
Slots == DOMAIN reqs
SlotIds == {1, 2}
Free(r) == r.pc \in {"idle", "done"}

\* EIP1193Error.toJSON(): the error as the plain object that is posted.
toJSON(error) == Val("EIP1193ErrorJSON", error.s, 0)

\* Mutation: the listener posts the reason of the failure it caught.
portResponsePostingReason(r, outcome) ==
  IF r.path = "port" THEN outcome.val ELSE r.response

\* The internal port's listener, after routeSafeRPCRequest settled: it posts
\* the result, and for whatever was thrown the user-rejected error.
portResponse(r, outcome) ==
  IF r.path = "port"
  THEN IF outcome.state = "fulfilled" THEN outcome.val
       ELSE toJSON(EIP1193Error("userRejectedRequest"))
  ELSE r.response

\* What internalProviderPort.postResponse may do with the response that
\* carries a routing result: return, throw after the response reached the
\* port's listeners, or throw before it did.  Posting the error response
\* returns.
PostingOutcomes == {"returns", "throwsDelivered", "throwsUndelivered"}

\* The results the listener hands to postResponse, in order: the result of
\* the routing, and after whatever was thrown in the try block (by the
\* routing or by postResponse itself) the user-rejected error.
postedResponses(r, outcome) ==
  IF r.path # "port" THEN <<>>
  ELSE IF outcome.state = "fulfilled"
  THEN IF r.posting = "returns" THEN <<outcome.val>>
       ELSE <<outcome.val, toJSON(EIP1193Error("userRejectedRequest"))>>
  ELSE <<toJSON(EIP1193Error("userRejectedRequest"))>>

\* The responses that reached the port's listeners, each with the id of the
\* event the listener was called with.
deliveredResponses(r, outcome) ==
  LET posted == postedResponses(r, outcome)
      response(k) == [id |-> r.id, result |-> posted[k]]
  IN  IF Len(posted) = 0 THEN <<>>
      ELSE IF Len(posted) = 1 THEN <<response(1)>>
      ELSE IF r.posting = "throwsDelivered" THEN <<response(1), response(2)>>
      ELSE <<response(2)>>

\* isEIP1193Error(message.result)
isEIP1193Error(v) == v.tag = "EIP1193ErrorJSON"

\* The result of the message the provider bridge posts on a request's port:
\* what routing returned, an EIP-1193 error that routing failed with, and
\* the user-rejected error for any other failure.
bridgeResult(outcome) ==
  IF outcome.state = "fulfilled" THEN outcome.val
  ELSE IF outcome.val.tag = "EIP1193Error" THEN toJSON(outcome.val)
  ELSE toJSON(EIP1193Error("userRejectedRequest"))

\* Mutation: whatever the result is, it is posted as an approval.
sessionRequestPortAlwaysApproving(isLegacy, result) ==
  [channel |-> IF isLegacy THEN "v1" ELSE "v2",
   kind |-> "approval", payload |-> result]

\* The callback of sessionRequestListener's port: a rejection for a result
\* that is an EIP-1193 error, else an approval carrying the result; through
\* the legacy callback for a legacy request, else through signClient.respond.
sessionRequestPortCallback(isLegacy, result) ==
  [channel |-> IF isLegacy THEN "v1" ELSE "v2",
   kind |-> IF isEIP1193Error(result) THEN "rejection" ELSE "approval",
   payload |-> IF isEIP1193Error(result) THEN NoVal ELSE result]

\* The callback with its guard: without a translated request (the record
\* has no method) it returns, leaving what was posted as it is.
sessionRequestPortCallbackGuarded(r, result) ==
  IF r.method = "none" THEN r.wcResponse
  ELSE sessionRequestPortCallback(r.protocol = "v1", result)

\* A session request that the bridge routed is answered on its port.
sessionResponse(r, outcome) ==
  IF r.path = "wc" /\ r.origin # "invalid"
  THEN sessionRequestPortCallbackGuarded(r, bridgeResult(outcome))
  ELSE r.wcResponse

\* routeSafeRPCRequest's promise settles; its awaiting caller goes on.
Done(r, outcome) ==
  [r EXCEPT !.pc = "done", !.result = outcome,
            !.response = portResponse(r, outcome),
            !.posts = Len(postedResponses(r, outcome)),
            !.delivered = deliveredResponses(r, outcome),
            !.wcResponse = sessionResponse(r, outcome)]

(***************************************************************************)
(* signTransaction, up to its first await.                                 *)
(***************************************************************************)
\* eth_sendTransaction spreads params[0] and sets nonce: undefined;
\* eth_signTransaction passes params[0] as it is.
transactionArgument(method, wire) ==
  IF method = "eth_sendTransaction" THEN [wire EXCEPT !.nonce = Absent]
  ELSE wire

\* Mutation: the annotation of any origin is decoded.
annotationIsReadFromAnyOrigin(transactionRequest, origin) ==
  transactionRequest.annotation # Absent

\* The annotation is decoded only for the internal origin.
annotationIsRead(transactionRequest, origin) ==
  origin = TALLY_INTERNAL_ORIGIN /\ transactionRequest.annotation # Absent

annotationOf(transactionRequest, origin) ==
  IF annotationIsRead(transactionRequest, origin)
  THEN decodeJSON(transactionRequest.annotation)
  ELSE Absent

\* Mutation: { ...transactionRequest, data: input, gasLimit: gas }
ethersRequestPreferringInput(transactionRequest) ==
  [transactionRequest EXCEPT
     !.data = IF transactionRequest.input # Absent
              THEN transactionRequest.input ELSE transactionRequest.data,
     !.gasLimit = transactionRequest.gas]

\* Mutation: { data: input, gasLimit: gas, ...transactionRequest }
ethersRequestKeepingGasLimit(transactionRequest) ==
  [transactionRequest EXCEPT
     !.data = IF transactionRequest.data # Absent
              THEN transactionRequest.data ELSE transactionRequest.input,
     !.gasLimit = IF transactionRequest.gasLimit # Absent
                  THEN transactionRequest.gasLimit ELSE transactionRequest.gas]

\* { data: input, ...transactionRequest, gasLimit: gas }
ethersRequestOf(transactionRequest) ==
  [transactionRequest EXCEPT
     !.data = IF transactionRequest.data # Absent
              THEN transactionRequest.data ELSE transactionRequest.input,
     !.gasLimit = transactionRequest.gas]

\* chain/utils.transactionRequestFromEthersTransactionRequest: the fields of
\* the wallet's own transaction request, each taken from the Ethers field.
transactionRequestFromEthersTransactionRequest(ethersRequest) ==
  [from |-> ethersRequest.from, data |-> ethersRequest.data,
   gasLimit |-> ethersRequest.gasLimit, nonce |-> ethersRequest.nonce]

\* The payload before the network is known.
signTransactionPayload(transactionRequest, origin) ==
  LET converted == transactionRequestFromEthersTransactionRequest(
                     ethersRequestOf(transactionRequest))
  IN  [NoPayload EXCEPT !.from = converted.from, !.data = converted.data,
                        !.gasLimit = converted.gasLimit,
                        !.nonce = converted.nonce,
                        !.annotation = annotationOf(transactionRequest, origin)]

\* Mutation: a request without a sender goes on to the approval.
signTransactionStartWithoutSenderCheck(r) ==
  LET transactionRequest == transactionArgument(r.method, r.wire)
      payload == signTransactionPayload(transactionRequest, r.origin)
  IN  IF annotationIsRead(transactionRequest, r.origin)
         /\ ~JsonParses(transactionRequest.annotation)
      THEN Done(r, Rejected(JsError("SyntaxError")))
      ELSE [r EXCEPT !.pc = "net", !.payload = payload]

signTransactionStart(r) ==
  LET transactionRequest == transactionArgument(r.method, r.wire)
      payload == signTransactionPayload(transactionRequest, r.origin)
  IN  IF annotationIsRead(transactionRequest, r.origin)
         /\ ~JsonParses(transactionRequest.annotation)
      THEN Done(r, Rejected(JsError("SyntaxError")))
      ELSE IF payload.from = Absent
      THEN Done(r, Rejected(JsError("Error: Transactions must have a from address for signing.")))
      ELSE [r EXCEPT !.pc = "net", !.payload = payload]

\* signData, up to its first await: eth_sign is (account, input),
\* personal_sign is (input, account).
signDataStart(r) ==
  LET input == IF r.method = "eth_sign" THEN r.wire.p1 ELSE r.wire.p0
      account == IF r.method = "eth_sign" THEN r.wire.p0 ELSE r.wire.p1
  IN  [r EXCEPT !.pc = "net",
                !.payload = [NoPayload EXCEPT !.address = account,
                                              !.rawSigningData = hexInput(input)]]

\* The whole function on one state of the table: the origin's selection,
\* else the internal origin's, else nothing to read .network from.
getActiveOrDefaultNetwork(table, origin) ==
  IF table[origin] # NoNetwork THEN table[origin]
  ELSE table[TALLY_INTERNAL_ORIGIN]

(***************************************************************************)
(* routeSafeRPCRequest(method, params, origin), up to its first await.     *)
(***************************************************************************)
\* Mutation: the default branch forwards to the gateway.
routeForwardingByDefault(r) ==
  [(CASE r.method \in TypedDataMethods -> [r EXCEPT !.pc = "net"]
    [] r.method = "eth_chainId" -> [r EXCEPT !.pc = "net"]
    [] r.method = "eth_accounts" -> [r EXCEPT !.pc = "account"]
    [] r.method \in TransactionMethods -> signTransactionStart(r)
    [] r.method \in SignDataMethods -> signDataStart(r)
    [] r.method \in SwitchChainMethods -> [r EXCEPT !.pc = "lookup"]
    [] OTHER -> [r EXCEPT !.pc = "net"])
   EXCEPT !.routedNetwork = getActiveOrDefaultNetwork(db, r.origin)]

\* Each routed request keeps, as a record of the run, what the resolver would
\* have answered for its origin in the state it was routed in.
routeSafeRPCRequest(r) ==
  [(CASE r.method \in TypedDataMethods -> [r EXCEPT !.pc = "net"]
    [] r.method = "eth_chainId" -> [r EXCEPT !.pc = "net"]
    [] r.method \in PassThroughMethods -> [r EXCEPT !.pc = "net"]
    [] r.method = "eth_accounts" -> [r EXCEPT !.pc = "account"]
    [] r.method \in TransactionMethods -> signTransactionStart(r)
    [] r.method \in SignDataMethods -> signDataStart(r)
    [] r.method \in SwitchChainMethods -> [r EXCEPT !.pc = "lookup"]
    [] OTHER -> Done(r, Rejected(EIP1193Error("unsupportedMethod"))))
   EXCEPT !.routedNetwork = getActiveOrDefaultNetwork(db, r.origin)]

\* A request enters slot i: the lowest slot whose handler has finished.
RouteRequest(i, path, method, wire, origin) ==
  /\ i \in Slots
  /\ Free(reqs[i])
  /\ \A j \in Slots : j < i => ~Free(reqs[j])
  /\ reqs' = [reqs EXCEPT ![i] =
       routeSafeRPCRequest([IdleReq EXCEPT !.path = path, !.method = method,
                                           !.wire = wire, !.origin = origin])]

(***************************************************************************)
(* getActiveOrDefaultNetwork(origin) and what each method does with the    *)
(* network.                                                                *)
(***************************************************************************)
\* Mutation: typed data is announced to the UI as a message to sign.
withNetworkAnnouncingTypedDataAsMessage(r, network) ==
  CASE r.method = "eth_chainId" ->
         Done(r, Fulfilled(Val("chainId", toHexChainID(network.chainID).fmt,
                               toHexChainID(network.chainID).n)))
    [] r.method \in TypedDataMethods ->
         IF JsonParses(r.wire.p1)
         THEN [r EXCEPT !.pc = "pending", !.event = "signDataRequest",
                        !.payload = [NoPayload EXCEPT
                                       !.address = r.wire.p0,
                                       !.network = network,
                                       !.typedData = decodeJSON(r.wire.p1)]]
         ELSE Done(r, Rejected(JsError("SyntaxError")))
    [] r.method \in TransactionMethods ->
         [r EXCEPT !.pc = "pending", !.event = "transactionSignatureRequest",
                   !.payload = [r.payload EXCEPT !.network = network]]
    [] r.method \in SignDataMethods ->
         [r EXCEPT !.pc = "pending", !.event = "signDataRequest",
                   !.payload = [r.payload EXCEPT !.network = network]]
    [] OTHER ->
         [r EXCEPT !.pc = "gateway", !.sends = @ + 1,
                   !.payload = [NoPayload EXCEPT !.network = network],
                   !.gatewayCall = [method |-> r.method, params |-> r.wire,
                                    network |-> network]]

withNetwork(r, network) ==
  CASE r.method = "eth_chainId" ->
         Done(r, Fulfilled(Val("chainId", toHexChainID(network.chainID).fmt,
                               toHexChainID(network.chainID).n)))
    [] r.method \in TypedDataMethods ->
         IF JsonParses(r.wire.p1)
         THEN [r EXCEPT !.pc = "pending", !.event = "signTypedDataRequest",
                        !.payload = [NoPayload EXCEPT
                                       !.address = r.wire.p0,
                                       !.network = network,
                                       !.typedData = decodeJSON(r.wire.p1)]]
         ELSE Done(r, Rejected(JsError("SyntaxError")))
    [] r.method \in TransactionMethods ->
         [r EXCEPT !.pc = "pending", !.event = "transactionSignatureRequest",
                   !.payload = [r.payload EXCEPT !.network = network]]
    [] r.method \in SignDataMethods ->
         [r EXCEPT !.pc = "pending", !.event = "signDataRequest",
                   !.payload = [r.payload EXCEPT !.network = network]]
    [] OTHER ->
         [r EXCEPT !.pc = "gateway", !.sends = @ + 1,
                   !.payload = [NoPayload EXCEPT !.network = network],
                   !.gatewayCall = [method |-> r.method, params |-> r.wire,
                                    network |-> network]]

\* Mutation: the annotation is decided after the await, and honored when any
\* handler in flight belongs to the internal origin.
ReadOriginNetworkAttributingLate(i) ==
  /\ i \in Slots
  /\ reqs[i].pc = "net"
  /\ LET trusted == \E k \in Slots : /\ ~Free(reqs[k])
                                     /\ reqs[k].origin = TALLY_INTERNAL_ORIGIN
         r == IF /\ reqs[i].method \in TransactionMethods
                 /\ trusted
                 /\ JsonParses(reqs[i].wire.annotation)
              THEN [reqs[i] EXCEPT !.payload.annotation =
                                     decodeJSON(reqs[i].wire.annotation)]
              ELSE reqs[i]
     IN  reqs' = [reqs EXCEPT ![i] =
           IF db[r.origin] # NoNetwork
           THEN withNetwork(r, db[r.origin])
           ELSE [r EXCEPT !.pc = "netInternal"]]
  /\ UNCHANGED <<db, activeNetworks, senderUrl, proposalOrigin, sessions, connection, abilities>>

\* await this.db.getActiveNetworkForOrigin(origin)
ReadOriginNetwork(i) ==
  /\ i \in Slots
  /\ reqs[i].pc = "net"
  /\ reqs' = [reqs EXCEPT ![i] =
       IF db[reqs[i].origin] # NoNetwork
       THEN withNetwork(reqs[i], db[reqs[i].origin])
       ELSE [reqs[i] EXCEPT !.pc = "netInternal"]]
  /\ UNCHANGED <<db, activeNetworks, senderUrl, proposalOrigin, sessions, connection, abilities>>

\* (await this.getInternalActiveChain()).network
ReadInternalNetwork(i) ==
  /\ i \in Slots
  /\ reqs[i].pc = "netInternal"
  /\ reqs' = [reqs EXCEPT ![i] =
       IF db[TALLY_INTERNAL_ORIGIN] # NoNetwork
       THEN withNetwork(reqs[i], db[TALLY_INTERNAL_ORIGIN])
       ELSE Done(reqs[i], Rejected(JsError("TypeError")))]
  /\ UNCHANGED <<db, activeNetworks, senderUrl, proposalOrigin, sessions, connection, abilities>>

\* Mutation: a failed chainService.send is sent once more.
GatewayReturnRetrying(i, ok) ==
  /\ i \in Slots
  /\ reqs[i].pc = "gateway"
  /\ reqs' = [reqs EXCEPT ![i] =
       IF ok
       THEN Done(reqs[i], Fulfilled(Val("gatewayResult", reqs[i].method, 0)))
       ELSE IF reqs[i].sends < 2
       THEN [reqs[i] EXCEPT !.sends = @ + 1]
       ELSE Done(reqs[i], Rejected(JsError("GatewayError")))]
  /\ UNCHANGED <<db, activeNetworks, senderUrl, proposalOrigin, sessions, connection, abilities>>

\* chainService.send settles.
GatewayReturn(i, ok) ==
  /\ i \in Slots
  /\ reqs[i].pc = "gateway"
  /\ reqs' = [reqs EXCEPT ![i] =
       Done(reqs[i], IF ok THEN Fulfilled(Val("gatewayResult", reqs[i].method, 0))
                     ELSE Rejected(JsError("GatewayError")))]
  /\ UNCHANGED <<db, activeNetworks, senderUrl, proposalOrigin, sessions, connection, abilities>>

\* What preferenceService.getSelectedAccount() may settle with: the selected
\* account, or, with no account selected, an object without an address,
\* undefined, or a rejection.
NoAccountAnswers == {"noAddress", "undefined", "rejects"}
SelectedAccountAnswers == {Account} \cup NoAccountAnswers

\* const { address } = answer; return [address]
accountsOf(answer) ==
  CASE answer = "undefined" -> Rejected(JsError("TypeError"))
    [] answer = "rejects" -> Rejected(JsError("PreferenceError"))
    [] answer = "noAddress" -> Fulfilled(Val("accounts", Absent, 1))
    [] OTHER -> Fulfilled(Val("accounts", answer, 1))

\* eth_accounts: the selected account, from the preference service.
SelectedAccount(i, answer) ==
  /\ i \in Slots
  /\ reqs[i].pc = "account"
  /\ answer \in SelectedAccountAnswers
  /\ reqs' = [reqs EXCEPT ![i] =
       Done([reqs[i] EXCEPT !.selected = answer], accountsOf(answer))]
  /\ UNCHANGED <<db, activeNetworks, senderUrl, proposalOrigin, sessions, connection, abilities>>

(***************************************************************************)
(* The approval promise.  The UI holds resolver and rejecter of every      *)
(* emitted event and may invoke either, in any order, any number of times. *)
(***************************************************************************)
\* Mutation: eth_sendTransaction returns the hash without broadcasting.
afterApprovalWithoutBroadcast(r) ==
  CASE r.method = "eth_sendTransaction" ->
         IF r.approval.state = "fulfilled"
         THEN Done(r, Fulfilled(HashOf(r.approval.val.s)))
         ELSE Done(r, r.approval)
    [] r.method = "eth_signTransaction" ->
         IF r.approval.state = "fulfilled"
         THEN Done(r, Fulfilled(serializeEthersTransaction(r.approval.val.s)))
         ELSE Done(r, r.approval)
    [] OTHER -> Done(r, r.approval)

\* Mutation: eth_signTransaction broadcasts what was signed, as
\* eth_sendTransaction does.
afterApprovalBroadcastingEverySignedTransaction(r) ==
  CASE r.method \in TransactionMethods ->
         IF r.approval.state = "fulfilled"
         THEN [r EXCEPT !.pc = "broadcast", !.broadcasts = @ + 1]
         ELSE Done(r, r.approval)
    [] OTHER -> Done(r, r.approval)

\* What runs when the approval settles: the .then of eth_sendTransaction
\* starts the broadcast, the .then of eth_signTransaction serializes, the
\* other methods return the approval promise itself.
afterApproval(r) ==
  CASE r.method = "eth_sendTransaction" ->
         IF r.approval.state = "fulfilled"
         THEN [r EXCEPT !.pc = "broadcast", !.broadcasts = @ + 1]
         ELSE Done(r, r.approval)
    [] r.method = "eth_signTransaction" ->
         IF r.approval.state = "fulfilled"
         THEN Done(r, Fulfilled(serializeEthersTransaction(r.approval.val.s)))
         ELSE Done(r, r.approval)
    [] OTHER -> Done(r, r.approval)

\* Mutation: every invocation settles anew.
settleAgain(r, outcome) == afterApproval([r EXCEPT !.approval = outcome])

\* Mutation: the rejecter handed to the UI does nothing.
settleWithoutRejecter(r, outcome) ==
  IF r.approval.state = "pending" /\ outcome.state = "fulfilled"
  THEN afterApproval([r EXCEPT !.approval = outcome])
  ELSE r

\* resolve(value) / reject() of a Promise: only the first invocation settles.
settle(r, outcome) ==
  IF r.approval.state = "pending"
  THEN afterApproval([r EXCEPT !.approval = outcome])
  ELSE r

ApprovalValues(r) ==
  IF r.method \in TransactionMethods
  THEN {Val("SignedTransaction", s, 0) : s \in SignedTxs}
  ELSE {Val("signature", s, 0) : s \in Signatures}

\* Mutation: one resolver for the whole broker, which settles every open
\* approval.
UIResolveSettlingEveryApproval(i, v) ==
  /\ i \in Slots
  /\ reqs[i].event # "none"
  /\ reqs[i].calls < MaxHandleCalls
  /\ v \in ApprovalValues(reqs[i])
  /\ reqs' = [k \in Slots |->
       IF k = i THEN [settle(reqs[k], Fulfilled(v)) EXCEPT !.calls = @ + 1]
       ELSE IF reqs[k].event # "none" THEN settle(reqs[k], Fulfilled(v))
       ELSE reqs[k]]
  /\ UNCHANGED <<db, activeNetworks, senderUrl, proposalOrigin, sessions, connection, abilities>>

\* resolver(value): the resolve of the promise made for this very event.
UIResolve(i, v) ==
  /\ i \in Slots
  /\ reqs[i].event # "none"
  /\ reqs[i].calls < MaxHandleCalls
  /\ v \in ApprovalValues(reqs[i])
  /\ reqs' = [reqs EXCEPT ![i] =
       [settle(reqs[i], Fulfilled(v)) EXCEPT !.calls = @ + 1]]
  /\ UNCHANGED <<db, activeNetworks, senderUrl, proposalOrigin, sessions, connection, abilities>>

UIReject(i) ==
  /\ i \in Slots
  /\ reqs[i].event # "none"
  /\ reqs[i].calls < MaxHandleCalls
  /\ reqs' = [reqs EXCEPT ![i] =
       [settle(reqs[i], Rejected(Undefined)) EXCEPT !.calls = @ + 1]]
  /\ UNCHANGED <<db, activeNetworks, senderUrl, proposalOrigin, sessions, connection, abilities>>

\* await this.chainService.broadcastSignedTransaction(signed); return signed.hash
BroadcastReturn(i, ok) ==
  /\ i \in Slots
  /\ reqs[i].pc = "broadcast"
  /\ reqs' = [reqs EXCEPT ![i] =
       Done(reqs[i], IF ok THEN Fulfilled(HashOf(reqs[i].approval.val.s))
                     ELSE Rejected(JsError("BroadcastError")))]
  /\ UNCHANGED <<db, activeNetworks, senderUrl, proposalOrigin, sessions, connection, abilities>>

(***************************************************************************)
(* wallet_switchEthereumChain / wallet_addEthereumChain.                   *)
(***************************************************************************)
NetworksWithChainId(networks, chainID) ==
  {n \in networks : toHexChainID(n.chainID) = toHexChainID(chainID)}

\* ChainService.activateNetworkOrThrow: the supported network of that chain
\* id, which becomes active; NoNetwork stands for its throwing.
activateNetworkOrThrow(chainID) ==
  IF NetworksWithChainId(SupportedNetworks, chainID) # {}
  THEN CHOOSE n \in NetworksWithChainId(SupportedNetworks, chainID) : TRUE
  ELSE NoNetwork

\* getActiveNetworkByChainId: an active network of that chain id, else the
\* network just activated, else undefined (NoNetwork).
getActiveNetworkByChainId(networks, chainID) ==
  IF NetworksWithChainId(networks, chainID) # {}
  THEN CHOOSE n \in NetworksWithChainId(networks, chainID) : TRUE
  ELSE activateNetworkOrThrow(chainID)

\* Mutation: a chain the gateway does not support is added as a new network.
SwitchLookupAddingChain(i) ==
  /\ i \in Slots
  /\ reqs[i].pc = "lookup"
  /\ LET supportedNetwork ==
           getActiveNetworkByChainId(activeNetworks, reqs[i].wire.chainId)
         added == IF supportedNetwork # NoNetwork THEN supportedNetwork
                  ELSE [name |-> "added", chainID |-> reqs[i].wire.chainId]
     IN  /\ reqs' = [reqs EXCEPT ![i] =
              [reqs[i] EXCEPT !.pc = "store", !.found = added]]
         /\ activeNetworks' = activeNetworks \cup {added}
  /\ UNCHANGED <<db, senderUrl, proposalOrigin, sessions, connection, abilities>>

\* Mutation: an unknown chain is answered with null instead of the error.
SwitchLookupWithoutThrow(i) ==
  /\ i \in Slots
  /\ reqs[i].pc = "lookup"
  /\ LET supportedNetwork ==
           getActiveNetworkByChainId(activeNetworks, reqs[i].wire.chainId)
     IN  /\ reqs' = [reqs EXCEPT ![i] =
              IF supportedNetwork # NoNetwork
              THEN [reqs[i] EXCEPT !.pc = "store", !.found = supportedNetwork]
              ELSE Done(reqs[i], Fulfilled(Null))]
         /\ activeNetworks' =
              IF supportedNetwork # NoNetwork
              THEN activeNetworks \cup {supportedNetwork}
              ELSE activeNetworks
  /\ UNCHANGED <<db, senderUrl, proposalOrigin, sessions, connection, abilities>>

\* Whether getActiveNetworkByChainId calls activateNetworkOrThrow, and how
\* the call ends: not called when an active network has the chain id.
activationOf(networks, chainID) ==
  IF NetworksWithChainId(networks, chainID) # {} THEN "none"
  ELSE IF activateNetworkOrThrow(chainID) # NoNetwork THEN "activated"
  ELSE "failed"

\* Mutation: the gateway is asked to activate the network whether or not it
\* is active.
SwitchLookupActivatingAlways(i) ==
  /\ i \in Slots
  /\ reqs[i].pc = "lookup"
  /\ LET supportedNetwork == activateNetworkOrThrow(reqs[i].wire.chainId)
         r == [reqs[i] EXCEPT !.activation =
                 IF supportedNetwork # NoNetwork THEN "activated" ELSE "failed"]
     IN  /\ reqs' = [reqs EXCEPT ![i] =
              IF supportedNetwork # NoNetwork
              THEN [r EXCEPT !.pc = "store", !.found = supportedNetwork]
              ELSE Done(r, Rejected(EIP1193Error("chainDisconnected")))]
         /\ activeNetworks' =
              IF supportedNetwork # NoNetwork
              THEN activeNetworks \cup {supportedNetwork}
              ELSE activeNetworks
  /\ UNCHANGED <<db, senderUrl, proposalOrigin, sessions, connection, abilities>>

SwitchLookup(i) ==
  /\ i \in Slots
  /\ reqs[i].pc = "lookup"
  /\ LET supportedNetwork ==
           getActiveNetworkByChainId(activeNetworks, reqs[i].wire.chainId)
         r == [reqs[i] EXCEPT !.activation =
                 activationOf(activeNetworks, reqs[i].wire.chainId)]
     IN  /\ reqs' = [reqs EXCEPT ![i] =
              IF supportedNetwork # NoNetwork
              THEN [r EXCEPT !.pc = "store", !.found = supportedNetwork]
              ELSE Done(r, Rejected(EIP1193Error("chainDisconnected")))]
         /\ activeNetworks' =
              IF supportedNetwork # NoNetwork
              THEN activeNetworks \cup {supportedNetwork}
              ELSE activeNetworks
  /\ UNCHANGED <<db, senderUrl, proposalOrigin, sessions, connection, abilities>>

\* await this.db.setActiveChainIdForOrigin(origin, supportedNetwork); return null
setActiveChainIdForOrigin(table, origin, network) ==
  [table EXCEPT ![origin] = network]

\* Mutation: the selection is stored for the internal origin.
SwitchStoreForInternalOrigin(i) ==
  /\ i \in Slots
  /\ reqs[i].pc = "store"
  /\ db' = setActiveChainIdForOrigin(db, TALLY_INTERNAL_ORIGIN, reqs[i].found)
  /\ reqs' = [reqs EXCEPT ![i] =
       [Done(reqs[i], Fulfilled(Null)) EXCEPT !.wrote = TRUE,
                                              !.prior = db[reqs[i].origin]]]
  /\ UNCHANGED <<activeNetworks, senderUrl, proposalOrigin, sessions, connection, abilities>>

\* Mutation: a selection the origin already has is kept.
SwitchStoreKeepingPrior(i) ==
  /\ i \in Slots
  /\ reqs[i].pc = "store"
  /\ db' = IF db[reqs[i].origin] = NoNetwork
           THEN setActiveChainIdForOrigin(db, reqs[i].origin, reqs[i].found)
           ELSE db
  /\ reqs' = [reqs EXCEPT ![i] =
       [Done(reqs[i], Fulfilled(Null)) EXCEPT !.wrote = TRUE,
                                              !.prior = db[reqs[i].origin]]]
  /\ UNCHANGED <<activeNetworks, senderUrl, proposalOrigin, sessions, connection, abilities>>

\* Mutation: the store's write also retargets the payloads of the approvals
\* that are open.
SwitchStoreRetargetingPendingPayloads(i) ==
  /\ i \in Slots
  /\ reqs[i].pc = "store"
  /\ db' = setActiveChainIdForOrigin(db, reqs[i].origin, reqs[i].found)
  /\ reqs' = [k \in Slots |->
       IF k = i
       THEN [Done(reqs[i], Fulfilled(Null)) EXCEPT !.wrote = TRUE,
                                                   !.prior = db[reqs[i].origin]]
       ELSE IF reqs[k].pc = "pending"
       THEN [reqs[k] EXCEPT !.payload.network = reqs[i].found]
       ELSE reqs[k]]
  /\ UNCHANGED <<activeNetworks, senderUrl, proposalOrigin, sessions, connection, abilities>>

SwitchStore(i) ==
  /\ i \in Slots
  /\ reqs[i].pc = "store"
  /\ db' = setActiveChainIdForOrigin(db, reqs[i].origin, reqs[i].found)
  /\ reqs' = [reqs EXCEPT ![i] =
       [Done(reqs[i], Fulfilled(Null)) EXCEPT !.wrote = TRUE,
                                              !.prior = db[reqs[i].origin]]]
  /\ UNCHANGED <<activeNetworks, senderUrl, proposalOrigin, sessions, connection, abilities>>

(***************************************************************************)
(* Entry points.                                                           *)
(***************************************************************************)
\* internalProviderPort's "message" listener, called with an event of the
\* given id: it routes the event's request with the internal origin.
portListener(i, id, method, wire, posting) ==
  /\ i \in Slots
  /\ Free(reqs[i])
  /\ \A j \in Slots : j < i => ~Free(reqs[j])
  /\ posting \in PostingOutcomes
  /\ reqs' = [reqs EXCEPT ![i] =
       routeSafeRPCRequest([IdleReq EXCEPT !.path = "port", !.id = id,
                                           !.posting = posting,
                                           !.method = method, !.wire = wire,
                                           !.origin = TALLY_INTERNAL_ORIGIN])]
  /\ UNCHANGED <<db, activeNetworks, senderUrl, proposalOrigin, sessions, connection, abilities>>

\* A message on the internal port while postResponse works.
PortMessage(i, method, wire) == portListener(i, "1", method, wire, "returns")

\* A dApp page's request, routed by the provider bridge with the page's origin.
BridgeRequest(i, method, wire, origin) ==
  /\ origin \in DappOrigins
  /\ RouteRequest(i, "bridge", method, wire, origin)
  /\ UNCHANGED <<db, activeNetworks, senderUrl, proposalOrigin, sessions, connection, abilities>>

\* The URLs a remote peer may put in its proposal's metadata: none, a dApp's,
\* and the text of the internal origin constant itself.
PeerUrls == {"", "https://dapp-a/wc", "https://dapp-b/wc", TALLY_INTERNAL_ORIGIN}

\* The provider bridge derives the origin of a port from its sender's URL
\* (new URL(url).origin): scheme and host, and nothing for what is no URL.
originOfUrl(url) ==
  CASE url = "https://dapp-a/wc" -> "https://dapp-a"
    [] url = "https://dapp-b/wc" -> "https://dapp-b"
    [] OTHER -> "invalid"

\* getMetaPort(name, senderUrl, ...): the port's sender is senderUrl.
metaPortSenderUrl(url) == url

\* The two WalletConnect clients: the legacy one and signClient.
Protocols == {"v1", "v2"}
ProtocolOf(isLegacy) == IF isLegacy THEN "v1" ELSE "v2"

\* Pairing URIs: one of version 1, one of version 2, one of a version that
\* does not exist, and one that is no URI.
WcUris == {"wc:a@1", "wc:b@2", "wc:c@3", "not-a-uri"}
parseUri(uri) ==
  CASE uri = "wc:a@1" -> "1"
    [] uri = "wc:b@2" -> "2"
    [] uri = "wc:c@3" -> "3"
    [] OTHER -> "throws"

\* A client before any URI was handed to it.  The fields from url on are
\* those of the latest proposal the client delivered.
\* requiredNamespaces["eip155"] of a version-2 proposal.
NoNamespace == [chains |-> <<>>, methods |-> <<>>, events |-> <<>>]
RequiredNamespaces ==
  [chains : {<<"eip155:1">>, <<"eip155:1", "eip155:137">>},
   methods : {<<"eth_sendTransaction">>, <<"eth_sendTransaction", "personal_sign">>},
   events : {<<>>, <<"chainChanged">>}]
PlainNamespace ==
  [chains |-> <<"eip155:1">>, methods |-> <<"eth_sendTransaction">>, events |-> <<>>]

\* The protocol of the first relay of a proposal that offers one.
RelayProtocol == "irn"

\* The argument of signClient.approve.
NoApproval == [relayProtocol |-> "none", namespaces |-> <<>>]

NoSession ==
  [handed |-> {},            \* the URIs handed to the client
   open |-> FALSE,           \* the client is connected to a peer
   url |-> "none",           \* the URL the proposal supplied ("": none)
   proposal |-> "none",      \* "dropped" | "prompting" | "acknowledged" | "rejected"
   promptUrl |-> "none",     \* the sender URL of the port of its eth_requestAccounts
   eip155 |-> FALSE,         \* requiredNamespaces has an eip155 entry (v2)
   relays |-> FALSE,         \* the proposal offers a relay (v2)
   required |-> NoNamespace, \* requiredNamespaces["eip155"] of the proposal (v2)
   approved |-> NoApproval,  \* the argument of the latest signClient.approve call
   awaited |-> 0,            \* acknowledged() calls awaited
   messages |-> 0,           \* messages delivered on that port
   result |-> "none",        \* the result of the latest of them
   approves |-> 0,           \* signClient.approve / acknowledgeLegacyProposal calls
   rejects |-> 0]            \* signClient.reject / rejectLegacyProposal calls

\* A performConnection call: the URI, the branch it ended in, whether its
\* promise was rejected, and whether this or an earlier call failed.
NoConnection ==
  [uri |-> "none", outcome |-> "none", raised |-> FALSE, failed |-> FALSE]
FailedOutcomes == {"parseFailed", "unhandled", "pairFailed"}

\* The branch of performConnection a URI takes; pairs says whether
\* signClient.pair returns or throws.
connectionOutcome(uri, pairs) ==
  CASE parseUri(uri) = "throws" -> "parseFailed"
    [] parseUri(uri) = "1" -> "legacy"
    [] parseUri(uri) = "2" -> IF pairs THEN "paired" ELSE "pairFailed"
    [] OTHER -> "unhandled"

\* The clients after performConnection(uri): a version-1 URI makes the
\* legacy client, a version-2 URI goes to signClient.pair.
connectedSessions(uri, pairs) ==
  CASE parseUri(uri) = "1" ->
         [sessions EXCEPT !["v1"].handed = @ \cup {uri},
                          !["v1"].open = TRUE]
    [] parseUri(uri) = "2" ->
         [sessions EXCEPT !["v2"].handed = @ \cup {uri},
                          !["v2"].open = @ \/ pairs]
    [] OTHER -> sessions

\* Mutation: no try/catch around parsing and pairing.
performConnectionWithoutCatch(uri, pairs) ==
  /\ uri \in WcUris
  /\ sessions' = connectedSessions(uri, pairs)
  /\ connection' =
       [uri |-> uri, outcome |-> connectionOutcome(uri, pairs),
        raised |-> connectionOutcome(uri, pairs) \in {"parseFailed", "pairFailed"},
        failed |-> connection.failed
                     \/ connectionOutcome(uri, pairs) \in FailedOutcomes]
  /\ UNCHANGED <<reqs, db, activeNetworks, senderUrl, proposalOrigin, abilities>>

\* performConnection(uri): what parseUri or signClient.pair throws is caught
\* and logged, a version that is neither 1 nor 2 is logged; the promise is
\* fulfilled in every branch.
performConnection(uri, pairs) ==
  /\ uri \in WcUris
  /\ sessions' = connectedSessions(uri, pairs)
  /\ connection' =
       [uri |-> uri, outcome |-> connectionOutcome(uri, pairs),
        raised |-> FALSE,
        failed |-> connection.failed
                     \/ connectionOutcome(uri, pairs) \in FailedOutcomes]
  /\ UNCHANGED <<reqs, db, activeNetworks, senderUrl, proposalOrigin, abilities>>

\* The proposals a peer may send.
DetailedProposals ==
  [hasParams : BOOLEAN, url : PeerUrls, eip155 : BOOLEAN, relays : BOOLEAN,
   required : RequiredNamespaces]

\* Those whose eip155 namespace, when they have one, asks for one chain.
ProposalInputs == {p \in DetailedProposals : p.required = PlainNamespace}

\* sessionProposalListener: senderUrl becomes the peer's own URL (a legacy
\* proposal with empty params leaves it as it was); with no senderUrl the
\* listener returns, otherwise it hands eth_requestAccounts to the provider
\* bridge on a port whose sender is senderUrl.
sessionProposalListener(isLegacy, proposal) ==
  /\ proposal \in DetailedProposals
  /\ sessions[ProtocolOf(isLegacy)].open
  /\ LET newUrl == IF isLegacy /\ ~proposal.hasParams THEN senderUrl
                   ELSE proposal.url
         supplied == IF isLegacy /\ ~proposal.hasParams THEN ""
                     ELSE proposal.url
     IN  /\ senderUrl' = newUrl
         /\ proposalOrigin' = IF newUrl = "" THEN proposalOrigin
                              ELSE originOfUrl(metaPortSenderUrl(newUrl))
         /\ sessions' = [sessions EXCEPT ![ProtocolOf(isLegacy)] =
              [NoSession EXCEPT
                 !.handed = sessions[ProtocolOf(isLegacy)].handed,
                 !.open = TRUE,
                 !.url = supplied,
                 !.eip155 = ~isLegacy /\ proposal.eip155,
                 !.relays = ~isLegacy /\ proposal.relays,
                 !.required = IF ~isLegacy /\ proposal.eip155
                              THEN proposal.required ELSE NoNamespace,
                 !.proposal = IF newUrl = "" THEN "dropped" ELSE "prompting",
                 !.promptUrl = IF newUrl = "" THEN "none"
                               ELSE metaPortSenderUrl(newUrl)]]
  /\ UNCHANGED <<reqs, db, activeNetworks, connection, abilities>>

\* What the provider bridge may post on the port of a proposal's
\* eth_requestAccounts: the accounts the user selected, an empty list, an
\* EIP-1193 error, or anything else.
PromptResults == {"accounts", "empty", "error", "other"}
AccountPromptResults == PromptResults \cup {"twoAccounts"}

\* message.result when it is a non-empty array; <<>> stands for every other
\* result.
SecondAccount == "0xB0b"
selectedAccountsOf(result) ==
  CASE result = "accounts" -> <<Account>>
    [] result = "twoAccounts" -> <<Account, SecondAccount>>
    [] OTHER -> <<>>

\* ethNamespace.chains.forEach((chain) =>
\*   selectedAccounts.map((acc) => accounts.push(`${chain}:${acc}`)))
RECURSIVE accountEntries(_, _)
accountEntries(chains, selectedAccounts) ==
  IF chains = <<>> THEN <<>>
  ELSE [m \in 1..Len(selectedAccounts) |->
          Head(chains) \o ":" \o selectedAccounts[m]]
       \o accountEntries(Tail(chains), selectedAccounts)

\* { id, relayProtocol: relays[0].protocol, namespaces }
approveArgument(required, selectedAccounts) ==
  [relayProtocol |-> RelayProtocol,
   namespaces |->
     [eip155 |-> [accounts |-> accountEntries(required.chains, selectedAccounts),
                  methods |-> required.methods,
                  events |-> required.events]]]

\* Mutation: a proposal without the eip155 namespace is approved with no
\* accounts.
acknowledgeProposalWithoutNamespaceCheck(session, selectedAccounts) ==
  IF session.relays
  THEN [session EXCEPT !.approves = @ + 1, !.proposal = "acknowledged",
                       !.approved = approveArgument(session.required,
                                                    selectedAccounts),
                       !.awaited = @ + 1]
  ELSE [session EXCEPT !.rejects = @ + 1, !.proposal = "rejected"]

\* Mutation: every selected account is listed once, under the first chain.
acknowledgeProposalListingFirstChainOnly(session, selectedAccounts) ==
  IF ~session.eip155
  THEN [session EXCEPT !.rejects = @ + 1, !.proposal = "rejected"]
  ELSE IF session.relays
  THEN [session EXCEPT !.approves = @ + 1, !.proposal = "acknowledged",
                       !.approved = approveArgument(
                          [session.required EXCEPT
                             !.chains = <<Head(session.required.chains)>>],
                          selectedAccounts),
                       !.awaited = @ + 1]
  ELSE [session EXCEPT !.rejects = @ + 1, !.proposal = "rejected"]

\* acknowledgeProposal: without an eip155 namespace the proposal is rejected;
\* with one and a relay it is approved, with an account entry for every
\* requested chain and selected account, and acknowledged() is awaited;
\* without a relay it is rejected.  A version-2 proposal is delivered by
\* signClient, so signClient is defined here.
acknowledgeProposal(session, selectedAccounts) ==
  IF ~session.eip155
  THEN [session EXCEPT !.rejects = @ + 1, !.proposal = "rejected"]
  ELSE IF session.relays
  THEN [session EXCEPT !.approves = @ + 1, !.proposal = "acknowledged",
                       !.approved = approveArgument(session.required,
                                                    selectedAccounts),
                       !.awaited = @ + 1]
  ELSE [session EXCEPT !.rejects = @ + 1, !.proposal = "rejected"]

\* The callback of sessionProposalListener's port.
sessionProposalPortCallback(isLegacy, session, result) ==
  CASE selectedAccountsOf(result) # <<>> ->
         IF isLegacy
         THEN [session EXCEPT !.approves = @ + 1, !.proposal = "acknowledged"]
         ELSE acknowledgeProposal(session, selectedAccountsOf(result))
    [] result = "error" ->
         [session EXCEPT !.rejects = @ + 1, !.proposal = "rejected"]
    [] OTHER -> session

\* The provider bridge posts a message on the port of a proposal.
ProposalPortMessage(isLegacy, result) ==
  /\ result \in AccountPromptResults
  /\ sessions[ProtocolOf(isLegacy)].promptUrl # "none"
  /\ originOfUrl(sessions[ProtocolOf(isLegacy)].promptUrl) # "invalid"
  /\ sessions[ProtocolOf(isLegacy)].messages < MaxPortMessages
  /\ sessions' = [sessions EXCEPT ![ProtocolOf(isLegacy)] =
       [sessionProposalPortCallback(isLegacy, @, result)
          EXCEPT !.messages = @ + 1, !.result = result]]
  /\ UNCHANGED <<reqs, db, activeNetworks, senderUrl, proposalOrigin, connection, abilities>>

\* The provider bridge's onMessageListener: a request on a port whose sender
\* has an origin is routed under that origin; one whose sender is no URL
\* fails before it is routed.
bridgeRoute(r, url) ==
  IF originOfUrl(url) = "invalid"
  THEN Done([r EXCEPT !.origin = "invalid"], Rejected(JsError("TypeError: Invalid URL")))
  ELSE routeSafeRPCRequest([r EXCEPT !.origin = originOfUrl(url)])

\* The event a client delivers for a session request: none, one whose params
\* do not translate, or one that translates into a request.
NoEvent == [kind |-> "none", method |-> "none", wire |-> NoWire]
MalformedEvent == [kind |-> "malformed", method |-> "none", wire |-> NoWire]
RequestEvent(method, wire) == [kind |-> "request", method |-> method, wire |-> wire]

\* eip155-request-utils.processRequestParams and
\* legacy-sign-client-helper.processLegacyRequestParams: the translated
\* request, or undefined (NoEvent) for params that do not translate.
processRequestParams(event) == IF event.kind = "request" THEN event ELSE NoEvent
processLegacyRequestParams(legacyEvent) ==
  IF legacyEvent.kind = "request" THEN legacyEvent ELSE NoEvent

\* sessionRequestListener's request: the legacy event's translation for a
\* legacy call that has one, else the event's translation if there is an
\* event, else undefined.
translatedRequest(isLegacy, event, legacyEvent) ==
  IF isLegacy /\ legacyEvent # NoEvent
  THEN processLegacyRequestParams(legacyEvent)
  ELSE IF event # NoEvent THEN processRequestParams(event)
  ELSE NoEvent

\* The arguments the clients' listeners call sessionRequestListener with:
\* signClient's (false, event), the legacy client's (true, undefined, payload).
ListenerEvent(isLegacy, e) == IF isLegacy THEN NoEvent ELSE e
ListenerLegacyEvent(isLegacy, e) == IF isLegacy THEN e ELSE NoEvent

\* Mutation: the session request is routed by the internal provider itself,
\* as the wallet's own requests are.
sessionRequestListenerRoutingInternally(i, isLegacy, event, legacyEvent) ==
  /\ i \in Slots
  /\ Free(reqs[i])
  /\ \A j \in Slots : j < i => ~Free(reqs[j])
  /\ sessions[ProtocolOf(isLegacy)].proposal = "acknowledged"
  /\ LET request == translatedRequest(isLegacy, event, legacyEvent)
     IN  reqs' = [reqs EXCEPT ![i] =
           routeSafeRPCRequest([IdleReq EXCEPT !.path = "wc",
                                               !.method = request.method,
                                               !.wire = request.wire,
                                               !.protocol = ProtocolOf(isLegacy),
                                               !.origin = TALLY_INTERNAL_ORIGIN])]
  /\ UNCHANGED <<db, activeNetworks, senderUrl, proposalOrigin, sessions, connection, abilities>>

\* Mutation: the listener hands the bridge whatever the translation gave.
sessionRequestListenerForwardingUntranslated(i, isLegacy, event, legacyEvent) ==
  /\ i \in Slots
  /\ Free(reqs[i])
  /\ \A j \in Slots : j < i => ~Free(reqs[j])
  /\ sessions[ProtocolOf(isLegacy)].proposal = "acknowledged"
  /\ LET request == translatedRequest(isLegacy, event, legacyEvent)
     IN  reqs' = [reqs EXCEPT ![i] =
           bridgeRoute([IdleReq EXCEPT
                          !.path = "wc", !.method = request.method,
                          !.wire = request.wire,
                          !.protocol = ProtocolOf(isLegacy),
                          !.sessionUrl = sessions[ProtocolOf(isLegacy)].url,
                          !.portUrl = metaPortSenderUrl(senderUrl)],
                       metaPortSenderUrl(senderUrl))]
  /\ UNCHANGED <<db, activeNetworks, senderUrl, proposalOrigin, sessions, connection, abilities>>

\* sessionRequestListener, called for a peer whose session was acknowledged:
\* it makes a port whose sender is senderUrl; with no translated request it
\* returns, otherwise it hands the request to
\* providerBridgeService.onMessageListener on that port.
sessionRequestListener(i, isLegacy, event, legacyEvent) ==
  /\ i \in Slots
  /\ Free(reqs[i])
  /\ \A j \in Slots : j < i => ~Free(reqs[j])
  /\ sessions[ProtocolOf(isLegacy)].proposal = "acknowledged"
  /\ LET request == translatedRequest(isLegacy, event, legacyEvent)
         received == [IdleReq EXCEPT
                        !.path = "wc", !.method = request.method,
                        !.wire = request.wire,
                        !.protocol = ProtocolOf(isLegacy),
                        !.sessionUrl = sessions[ProtocolOf(isLegacy)].url,
                        !.portUrl = metaPortSenderUrl(senderUrl)]
     IN  reqs' = [reqs EXCEPT ![i] =
           IF request = NoEvent
           THEN [received EXCEPT !.pc = "done"]
           ELSE bridgeRoute(received, metaPortSenderUrl(senderUrl))]
  /\ UNCHANGED <<db, activeNetworks, senderUrl, proposalOrigin, sessions, connection, abilities>>

\* A message arrives on the port of a session request that the listener did
\* not hand to the bridge: the callback returns before it answers.
SessionRequestPortMessage(i, result) ==
  /\ i \in Slots
  /\ reqs[i].path = "wc"
  /\ reqs[i].pc = "done"
  /\ reqs[i].origin = "none"
  /\ reqs' = [reqs EXCEPT ![i].wcResponse = sessionRequestPortCallbackGuarded(reqs[i], result)]
  /\ UNCHANGED <<db, activeNetworks, senderUrl, proposalOrigin, sessions, connection, abilities>>

(***************************************************************************)
(* AbilitiesService.pollForAbilities.                                      *)
(***************************************************************************)
\* The pollForAbilities calls that may be in flight at once, the addresses
\* they are made for, and the abilities the daylight API knows by uid.
PollIds == {1, 2}
PollAddresses == {Account, SecondAccount}
DaylightLists ==
  {<<>>} \cup {<<u>> : u \in {"uid-1", "uid-2"}}
         \cup {<<u, v>> : u \in {"uid-1", "uid-2"}, v \in {"uid-1", "uid-2"}}

\* normalizeEVMAddress: the address in lower case.
normalizeEVMAddress(address) ==
  CASE address = "0xA11ce" -> "0xa11ce"
    [] address = "0xB0b" -> "0xb0b"
    [] OTHER -> address

\* normalizeDaylightAbilities: one Ability for each daylight ability, in
\* order; the fields that are copied from the daylight ability are stood for
\* by its uid.
normalizeDaylightAbilities(daylightAbilities, address) ==
  [k \in 1..Len(daylightAbilities) |->
     [abilityId |-> daylightAbilities[k],
      address |-> normalizeEVMAddress(address),
      completed |-> FALSE, removedFromUi |-> FALSE]]

IdlePoll ==
  [pc |-> "idle",            \* "fetching" | "adding" | "failed" | "done"
   address |-> "none",
   fetches |-> 0,            \* getDaylightAbilities calls
   normalized |-> <<>>,      \* normalizedAbilities
   adds |-> 0,               \* db.addNewAbility calls
   pending |-> {},           \* the indices whose addNewAbility has not settled
   reports |-> <<>>,         \* index -> what addNewAbility settled with
   newAbilities |-> <<>>,    \* the call's local newAbilities
   emits |-> 0,              \* emit("newAbilities", ...) calls
   emitted |-> <<>>]         \* the list emitted

NoAbilities == [enabled |-> FALSE, db |-> {}, polls |-> <<IdlePoll, IdlePoll>>]

\* pollForAbilities(address) up to its first await: with the feature
\* disabled it returns, otherwise it calls getDaylightAbilities.
pollForAbilities(c, address) ==
  /\ c \in PollIds
  /\ address \in PollAddresses
  /\ abilities.polls[c].pc = "idle"
  /\ abilities' = [abilities EXCEPT !.polls[c] =
       IF ~abilities.enabled
       THEN [@ EXCEPT !.pc = "done", !.address = address]
       ELSE [@ EXCEPT !.pc = "fetching", !.address = address,
                      !.fetches = @ + 1]]
  /\ UNCHANGED <<reqs, db, activeNetworks, senderUrl, proposalOrigin, sessions, connection>>

\* await getDaylightAbilities(address) settles: the abilities are normalized
\* and db.addNewAbility is called for each of them at once (Promise.all over
\* map); a failed fetch ends the call.
getDaylightAbilitiesSettles(c, ok, daylightAbilities) ==
  /\ c \in PollIds
  /\ daylightAbilities \in DaylightLists
  /\ abilities.polls[c].pc = "fetching"
  /\ LET normalized == normalizeDaylightAbilities(daylightAbilities,
                                                  abilities.polls[c].address)
     IN  abilities' = [abilities EXCEPT !.polls[c] =
           IF ok
           THEN [@ EXCEPT !.pc = "adding", !.normalized = normalized,
                          !.adds = Len(normalized),
                          !.pending = 1..Len(normalized),
                          !.reports = [k \in 1..Len(normalized) |-> "none"]]
           ELSE [@ EXCEPT !.pc = "failed"]]
  /\ UNCHANGED <<reqs, db, activeNetworks, senderUrl, proposalOrigin, sessions, connection>>

\* await this.db.addNewAbility(ability) settles for the k-th ability: the
\* database stores an ability it does not have and says so, and the ability
\* is pushed when it was new; when it fails, Promise.all rejects and the call
\* ends without emitting, while the other additions go on.
addNewAbilitySettles(c, k, ok) ==
  /\ c \in PollIds
  /\ abilities.polls[c].pc \in {"adding", "failed"}
  /\ k \in abilities.polls[c].pending
  /\ LET ability == abilities.polls[c].normalized[k]
         isNewAbility == ability \notin abilities.db
     IN  abilities' =
           IF ok
           THEN [abilities EXCEPT
                   !.db = @ \cup {ability},
                   !.polls[c].pending = @ \ {k},
                   !.polls[c].reports[k] = IF isNewAbility THEN "new" ELSE "known",
                   !.polls[c].newAbilities = IF isNewAbility
                                             THEN Append(@, ability) ELSE @]
           ELSE [abilities EXCEPT
                   !.polls[c].pending = @ \ {k},
                   !.polls[c].reports[k] = "failed",
                   !.polls[c].pc = "failed"]
  /\ UNCHANGED <<reqs, db, activeNetworks, senderUrl, proposalOrigin, sessions, connection>>

\* Mutation: every fetched ability is announced.
emitNewAbilitiesAnnouncingFetched(c) ==
  /\ c \in PollIds
  /\ abilities.polls[c].pc = "adding"
  /\ abilities.polls[c].pending = {}
  /\ abilities' = [abilities EXCEPT !.polls[c] =
       IF @.normalized # <<>>
       THEN [@ EXCEPT !.pc = "done", !.emits = @ + 1,
                      !.emitted = abilities.polls[c].normalized]
       ELSE [@ EXCEPT !.pc = "done"]]
  /\ UNCHANGED <<reqs, db, activeNetworks, senderUrl, proposalOrigin, sessions, connection>>

\* After Promise.all: if (newAbilities.length) emit("newAbilities", newAbilities)
emitNewAbilities(c) ==
  /\ c \in PollIds
  /\ abilities.polls[c].pc = "adding"
  /\ abilities.polls[c].pending = {}
  /\ abilities' = [abilities EXCEPT !.polls[c] =
       IF @.newAbilities # <<>>
       THEN [@ EXCEPT !.pc = "done", !.emits = @ + 1,
                      !.emitted = abilities.polls[c].newAbilities]
       ELSE [@ EXCEPT !.pc = "done"]]
  /\ UNCHANGED <<reqs, db, activeNetworks, senderUrl, proposalOrigin, sessions, connection>>

(***************************************************************************)
(* Specifications.                                                         *)
(***************************************************************************)
\* One method of every case group, and names of the default branch.
MethodSample ==
  {"eth_signTypedData_v4", "eth_chainId", "eth_call", "eth_accounts",
   "eth_sendTransaction", "eth_signTransaction", "eth_sign", "personal_sign",
   "wallet_addEthereumChain", "wallet_switchEthereumChain",
   "wallet_requestPermissions", "eth_requestAccounts", "foo_bar"}

\* The table starts empty: a selection is created by the first chain switch.
Init ==
  /\ reqs = <<IdleReq>>
  /\ db = [o \in Origins |-> NoNetwork]
  /\ activeNetworks = {ETHEREUM}
  /\ senderUrl = ""
  /\ proposalOrigin = "none"
  /\ sessions = [p \in Protocols |-> NoSession]
  /\ connection = NoConnection
  /\ abilities = NoAbilities

\* The steps every handler takes after it was routed.
HandlerStep(i) ==
  \/ ReadOriginNetwork(i)
  \/ ReadInternalNetwork(i)
  \/ \E ok \in BOOLEAN : GatewayReturn(i, ok)
  \/ \E answer \in SelectedAccountAnswers : SelectedAccount(i, answer)
  \/ \E ok \in BOOLEAN : BroadcastReturn(i, ok)
  \/ SwitchLookup(i)
  \/ SwitchStore(i)

UIStep(i) ==
  \/ \E v \in {Val(t, x, 0) : t \in {"SignedTransaction", "signature"},
                               x \in SignedTxs \cup Signatures} :
       UIResolve(i, v)
  \/ UIReject(i)

\* The broker: requests of every kind, one handler in flight at a time.
Next ==
  \E i \in SlotIds :
    \/ \E m \in MethodSample : \E w \in WiresFor(m, TxWiresSmall) :
         PortMessage(i, m, w)
    \/ \E m \in MethodSample : \E w \in WiresFor(m, TxWiresSmall) :
         \E o \in DappOrigins : BridgeRequest(i, m, w, o)
    \/ HandlerStep(i)
    \/ UIStep(i)

Spec == Init /\ [][Next]_vars

\* The broker under the event loop's scheduling: a handler that can take its
\* next step takes it.  Nothing makes a request arrive or the user decide.
FairSpec == Spec /\ WF_vars(HandlerStep(1))

\* One transaction request with any combination of fields, on a table in
\* which the internal origin may already have switched to Ethereum.
InitTx ==
  /\ reqs = <<IdleReq>>
  /\ \E n \in {NoNetwork, ETHEREUM} :
       db = [o \in Origins |-> IF o = TALLY_INTERNAL_ORIGIN THEN n ELSE NoNetwork]
  /\ activeNetworks = {ETHEREUM}
  /\ senderUrl = ""
  /\ proposalOrigin = "none"
  /\ sessions = [p \in Protocols |-> NoSession]
  /\ connection = NoConnection
  /\ abilities = NoAbilities

NextTx ==
  \E i \in SlotIds :
    \/ \E m \in TransactionMethods : \E w \in TxWiresAll :
         i \in Slots /\ reqs[i].pc = "idle" /\ PortMessage(i, m, w)
    \/ \E m \in TransactionMethods : \E w \in TxWiresAll :
         \E o \in DappOrigins :
           i \in Slots /\ reqs[i].pc = "idle" /\ BridgeRequest(i, m, w, o)
    \/ ReadOriginNetwork(i)
    \/ ReadInternalNetwork(i)
    \/ UIStep(i)
    \/ \E ok \in BOOLEAN : BroadcastReturn(i, ok)

SpecTx == InitTx /\ [][NextTx]_vars

\* The broker with WalletConnect peers proposing sessions and sending
\* session requests.
WcMethodSample ==
  {"eth_chainId", "eth_call", "eth_accounts", "eth_sendTransaction",
   "personal_sign", "wallet_switchEthereumChain", "eth_requestAccounts"}

\* Both clients with a session that was proposed, prompted for and
\* acknowledged: the legacy one with dApp a, then signClient with dApp b.
Established(isLegacy, uri, url) ==
  [NoSession EXCEPT !.handed = {uri}, !.open = TRUE, !.url = url,
                    !.proposal = "acknowledged", !.promptUrl = url,
                    !.eip155 = ~isLegacy, !.relays = ~isLegacy,
                    !.required = IF isLegacy THEN NoNamespace ELSE PlainNamespace,
                    !.approved = IF isLegacy THEN NoApproval
                                 ELSE approveArgument(PlainNamespace, <<Account>>),
                    !.awaited = IF isLegacy THEN 0 ELSE 1,
                    !.messages = 1, !.result = "accounts", !.approves = 1]

InitWC ==
  /\ reqs = <<IdleReq>>
  /\ db = [o \in Origins |-> NoNetwork]
  /\ activeNetworks = {ETHEREUM}
  /\ senderUrl = "https://dapp-b/wc"
  /\ proposalOrigin = "https://dapp-b"
  /\ sessions = [p \in Protocols |->
                   IF p = "v1"
                   THEN Established(TRUE, "wc:a@1", "https://dapp-a/wc")
                   ELSE Established(FALSE, "wc:b@2", "https://dapp-b/wc")]
  /\ connection = [NoConnection EXCEPT !.uri = "wc:b@2", !.outcome = "paired"]
  /\ abilities = NoAbilities

\* Session requests on both sessions and the wallet's own requests, while a
\* legacy peer sends further proposals with any URL.
NextWC ==
  \/ \E hasParams \in BOOLEAN : \E url \in PeerUrls :
       sessionProposalListener(TRUE, [hasParams |-> hasParams, url |-> url,
                                      eip155 |-> TRUE, relays |-> TRUE,
                                  required |-> PlainNamespace])
  \/ \E i \in SlotIds :
       \/ \E m \in WcMethodSample : \E w \in WiresFor(m, TxWiresSmall) :
            \E isLegacy \in BOOLEAN :
              sessionRequestListener(i, isLegacy,
                ListenerEvent(isLegacy, RequestEvent(m, w)),
                ListenerLegacyEvent(isLegacy, RequestEvent(m, w)))
       \/ \E m \in WcMethodSample : \E w \in WiresFor(m, TxWiresSmall) :
            PortMessage(i, m, w)
       \/ HandlerStep(i)
       \/ UIStep(i)

SpecWC == InitWC /\ [][NextWC]_vars

\* The proposals of a session: pairing, the proposals a peer may send, and
\* what the provider bridge may answer to the account prompt.
NextProposals ==
  \/ \E uri \in {"wc:a@1", "wc:b@2"} : performConnection(uri, TRUE)
  \/ \E isLegacy \in BOOLEAN : \E proposal \in ProposalInputs :
       sessionProposalListener(isLegacy, proposal)
  \/ \E isLegacy \in BOOLEAN : \E result \in PromptResults :
       ProposalPortMessage(isLegacy, result)

SpecProposals == Init /\ [][NextProposals]_vars

\* Two peers, one on each protocol, proposing sessions and sending
\* eth_chainId in any order.
NextSessions ==
  \/ \E uri \in WcUris : \E pairs \in BOOLEAN : performConnection(uri, pairs)
  \/ \E isLegacy, hasParams \in BOOLEAN :
       \E url \in {"", "https://dapp-a/wc", "https://dapp-b/wc"} :
         sessionProposalListener(isLegacy,
                                 [hasParams |-> hasParams, url |-> url,
                                  eip155 |-> TRUE, relays |-> TRUE,
                                  required |-> PlainNamespace])
  \/ \E isLegacy \in BOOLEAN : ProposalPortMessage(isLegacy, "accounts")
  \/ \E i \in SlotIds :
       \/ \E isLegacy \in BOOLEAN :
            sessionRequestListener(i, isLegacy,
              ListenerEvent(isLegacy, RequestEvent("eth_chainId", NoWire)),
              ListenerLegacyEvent(isLegacy, RequestEvent("eth_chainId", NoWire)))
       \/ ReadOriginNetwork(i)
       \/ ReadInternalNetwork(i)

SpecSessions == InitTx /\ [][NextSessions]_vars

\* Two handlers in flight at once: the wallet's own requests and one dApp's,
\* with one request of each kind.
ConcurrentMethods ==
  {"personal_sign", "eth_sendTransaction", "eth_call",
   "wallet_switchEthereumChain"}

ConcurrentWires(method) ==
  CASE method = "personal_sign" -> {[NoWire EXCEPT !.p0 = "hello", !.p1 = Account]}
    [] method = "eth_sendTransaction" ->
         {[NoWire EXCEPT !.from = Account, !.input = "0xabc", !.gas = "0x5208",
                         !.nonce = "0x5", !.annotation = AnnotationJson]}
    [] method = "eth_call" -> {[NoWire EXCEPT !.p0 = "latest"]}
    [] OTHER -> {[NoWire EXCEPT !.chainId = ChainIdStr("hex", 137)]}

\* The internal origin has switched to Ethereum; no dApp has a selection.
InitConcurrent ==
  /\ reqs = <<IdleReq, IdleReq>>
  /\ db = [o \in Origins |-> IF o = TALLY_INTERNAL_ORIGIN THEN ETHEREUM
                             ELSE NoNetwork]
  /\ activeNetworks = {ETHEREUM}
  /\ senderUrl = ""
  /\ proposalOrigin = "none"
  /\ sessions = [p \in Protocols |-> NoSession]
  /\ connection = NoConnection
  /\ abilities = NoAbilities

NextConcurrent ==
  \E i \in SlotIds :
    \/ \E m \in ConcurrentMethods : \E w \in ConcurrentWires(m) :
         PortMessage(i, m, w)
    \/ \E m \in ConcurrentMethods : \E w \in ConcurrentWires(m) :
         BridgeRequest(i, m, w, "https://dapp-a")
    \/ ReadOriginNetwork(i)
    \/ ReadInternalNetwork(i)
    \/ GatewayReturn(i, TRUE)
    \/ BroadcastReturn(i, TRUE)
    \/ SwitchLookup(i)
    \/ SwitchStore(i)
    \/ UIStep(i)

SpecConcurrent == InitConcurrent /\ [][NextConcurrent]_vars

\* Messages on the internal port with ids of their own, two at a time, on a
\* port whose postResponse may throw.
MessageIds == {"m1", "m2"}
PortMethods == {"eth_chainId", "personal_sign", "foo_bar"}

NextPort ==
  \E i \in SlotIds :
    \/ \E id \in MessageIds : \E m \in PortMethods :
         \E posting \in PostingOutcomes :
           /\ \A k \in Slots : (k # i /\ ~Free(reqs[k])) => reqs[k].id # id
           /\ portListener(i, id, m, CHOOSE w \in WiresFor(m, TxWiresSmall) : TRUE,
                           posting)
    \/ ReadOriginNetwork(i)
    \/ UIStep(i)

SpecPort == InitConcurrent /\ [][NextPort]_vars

\* What a client may deliver for a session request, and one of each kind of
\* request a peer may send.
SessionEvents ==
  {NoEvent, MalformedEvent}
    \cup {RequestEvent(m, w) :
            m \in {"personal_sign"}, w \in WiresFor("personal_sign", TxWiresSmall)}
    \cup {RequestEvent(m, w) :
            m \in {"wallet_switchEthereumChain"},
            w \in WiresFor("wallet_switchEthereumChain", TxWiresSmall)}

\* Results the provider bridge posts on a port.
PortResults ==
  {Val("signature", "sig-1", 0), Null,
   toJSON(EIP1193Error("userRejectedRequest"))}

\* Session requests with every combination of the listener's arguments, on
\* both established sessions.
NextTranslation ==
  \E i \in SlotIds :
    \/ \E isLegacy \in BOOLEAN : \E event, legacyEvent \in SessionEvents :
         sessionRequestListener(i, isLegacy, event, legacyEvent)
    \/ \E result \in PortResults : SessionRequestPortMessage(i, result)
    \/ ReadOriginNetwork(i)
    \/ ReadInternalNetwork(i)
    \/ SwitchLookup(i)
    \/ SwitchStore(i)
    \/ UIStep(i)

SpecTranslation == InitWC /\ [][NextTranslation]_vars

\* Pairing with every URI, succeeding and failing, while the peers of the
\* paired clients propose sessions from one dApp.
NextConnection ==
  \/ \E uri \in WcUris : \E pairs \in BOOLEAN : performConnection(uri, pairs)
  \/ \E isLegacy \in BOOLEAN :
       sessionProposalListener(isLegacy,
                               [hasParams |-> TRUE, url |-> "https://dapp-a/wc",
                                eip155 |-> TRUE, relays |-> TRUE,
                                  required |-> PlainNamespace])
  \/ \E isLegacy \in BOOLEAN : \E result \in {"accounts", "error"} :
       ProposalPortMessage(isLegacy, result)

SpecConnection == Init /\ [][NextConnection]_vars

\* Version-2 proposals of one dApp with every required namespace, with and
\* without relays, answered on their port with every kind of result.
NextAcknowledge ==
  \/ performConnection("wc:b@2", TRUE)
  \/ \E eip155, relays \in BOOLEAN : \E required \in RequiredNamespaces :
       sessionProposalListener(FALSE,
                               [hasParams |-> TRUE, url |-> "https://dapp-a/wc",
                                eip155 |-> eip155, relays |-> relays,
                                required |-> required])
  \/ \E result \in AccountPromptResults : ProposalPortMessage(FALSE, result)

SpecAcknowledge == Init /\ [][NextAcknowledge]_vars

\* The abilities feature enabled or disabled, with a database that is empty
\* or already has the first ability of the first account, and two calls of
\* pollForAbilities (the alarm's and a newly tracked account's).
InitAbilities ==
  /\ reqs = <<IdleReq>>
  /\ db = [o \in Origins |-> NoNetwork]
  /\ activeNetworks = {ETHEREUM}
  /\ senderUrl = ""
  /\ proposalOrigin = "none"
  /\ sessions = [p \in Protocols |-> NoSession]
  /\ connection = NoConnection
  /\ \E enabled \in BOOLEAN :
       \E stored \in {{}, {normalizeDaylightAbilities(<<"uid-1">>, Account)[1]}} :
         abilities = [NoAbilities EXCEPT !.enabled = enabled, !.db = stored]

NextAbilities ==
  \E c \in PollIds :
    \/ \E address \in PollAddresses : pollForAbilities(c, address)
    \/ \E ok \in BOOLEAN : \E daylightAbilities \in DaylightLists :
         getDaylightAbilitiesSettles(c, ok, daylightAbilities)
    \/ \E k \in abilities.polls[c].pending : \E ok \in BOOLEAN :
         addNewAbilitySettles(c, k, ok)
    \/ emitNewAbilities(c)

SpecAbilities == InitAbilities /\ [][NextAbilities]_vars

(***************************************************************************)
(* Properties.                                                             *)
(***************************************************************************)
SigningMethods == TypedDataMethods \cup TransactionMethods \cup SignDataMethods
Settled(r) == r.result.state # "pending"

\* C1: the payload of a transactionSignatureRequest emitted for an origin
\* other than the internal origin carries no annotation, whatever the
\* request supplied; a payload carries an annotation only if the origin is
\* the internal origin and the request supplied one, and then it is the
\* decoded one.
C1_AnnotationOnlyForInternalOrigin ==
  \A i \in Slots :
    reqs[i].event = "transactionSignatureRequest" =>
      /\ reqs[i].origin # TALLY_INTERNAL_ORIGIN =>
           reqs[i].payload.annotation = Absent
      /\ reqs[i].payload.annotation # Absent =>
           /\ reqs[i].origin = TALLY_INTERNAL_ORIGIN
           /\ reqs[i].payload.annotation = decodeJSON(reqs[i].wire.annotation)

\* An untrusted origin's request that supplied a well-formed annotation
\* reached the UI.
C1_Witness ==
  \E i \in Slots :
    /\ reqs[i].event = "transactionSignatureRequest"
    /\ reqs[i].origin \in DappOrigins
    /\ reqs[i].wire.annotation = AnnotationJson

\* C2: a request is processed under the internal origin exactly when it
\* arrived on the internal provider port; neither a WalletConnect session
\* request nor a proposal's account request is ever processed under it,
\* whatever URL the peer's proposal supplied.
C2_InternalOriginOnlyFromPort ==
  /\ proposalOrigin # TALLY_INTERNAL_ORIGIN
  /\ \A i \in Slots :
      reqs[i].pc # "idle" =>
        (reqs[i].origin = TALLY_INTERNAL_ORIGIN <=> reqs[i].path = "port")

\* A session request was handled while senderUrl held the text of the
\* internal origin, supplied by a peer's proposal.
C2_Witness ==
  \E i \in Slots :
    /\ reqs[i].path = "wc"
    /\ reqs[i].pc = "done"
    /\ senderUrl = TALLY_INTERNAL_ORIGIN

\* C3: an invocation of resolver or rejecter of an approval that is already
\* settled changes nothing but the count of invocations: the approval, the
\* caller's result, the handler's position and the broker's state stay.
C3_LaterInvocationsHaveNoEffect ==
  [][\A i \in Slots :
       (reqs[i].approval.state # "pending"
        /\ reqs'[i].calls = reqs[i].calls + 1) =>
         (/\ reqs'[i] = [reqs[i] EXCEPT !.calls = @ + 1]
          /\ UNCHANGED <<db, activeNetworks, senderUrl, proposalOrigin, sessions, connection, abilities>>)]_vars

\* A handle was invoked a second time.
C3_Witness ==
  \E i \in Slots : reqs[i].approval.state # "pending" /\ reqs[i].calls >= 2

\* C4, as claimed: every routed signing request's result eventually settles.
C4_EverySigningRequestSettles ==
  (reqs[1].method \in SigningMethods /\ reqs[1].pc # "idle")
    ~> Settled(reqs[1])

\* C4, amended: every routed signing request's result settles or the request
\* comes to wait for the user with no handle invoked yet; once a handle was
\* invoked the result settles; and a settled result never changes.
C4_SettlesOnceTheUserDecides ==
  /\ (reqs[1].method \in SigningMethods /\ reqs[1].pc # "idle")
       ~> (Settled(reqs[1]) \/ (reqs[1].pc = "pending" /\ reqs[1].calls = 0))
  /\ (reqs[1].method \in SigningMethods /\ reqs[1].calls > 0)
       ~> Settled(reqs[1])
  /\ [][(Settled(reqs[1]) /\ reqs'[1].calls > 0) =>
          reqs'[1].result = reqs[1].result]_vars

\* A signing request settled after the user decided.
C4_Witness ==
  /\ reqs[1].method \in SigningMethods
  /\ reqs[1].calls > 0
  /\ Settled(reqs[1])

\* C5: for an eth_sendTransaction request the broadcast is invoked at most
\* once, only on a fulfilled approval and never on a pending or rejected
\* one; while the broadcast is in progress the caller has no result; a
\* fulfilled result is the signed transaction's hash and comes after exactly
\* one broadcast; a finished request whose approval was fulfilled has
\* broadcast exactly once.
C5_BroadcastOnceAfterApproval ==
  \A i \in Slots :
    reqs[i].method = "eth_sendTransaction" =>
      /\ reqs[i].broadcasts <= 1
      /\ reqs[i].broadcasts = 1 => reqs[i].approval.state = "fulfilled"
      /\ reqs[i].approval.state \in {"pending", "rejected"} =>
           reqs[i].broadcasts = 0
      /\ reqs[i].pc = "broadcast" => ~Settled(reqs[i])
      /\ reqs[i].result.state = "fulfilled" =>
           /\ reqs[i].pc = "done"
           /\ reqs[i].broadcasts = 1
           /\ reqs[i].result.val = HashOf(reqs[i].approval.val.s)
      /\ (reqs[i].pc = "done" /\ reqs[i].approval.state = "fulfilled") =>
           reqs[i].broadcasts = 1

\* An approved eth_sendTransaction returned its hash.
C5_Witness ==
  \E i \in Slots :
    /\ reqs[i].method = "eth_sendTransaction"
    /\ reqs[i].result.state = "fulfilled"

\* A step of the chain-switch handler of the request in slot i.
SwitchHandlerStep(i) ==
  /\ reqs[i].method \in SwitchChainMethods
  /\ reqs[i].pc \in {"lookup", "store"}
  /\ reqs'[i] # reqs[i]

\* C6, as claimed: a chain switch routed for o1 leaves the network resolved
\* for every other origin unchanged (stated for the origins o2 for which a
\* network was resolved before the switch).
C6_SwitchLeavesOthersResolvedNetwork ==
  [][\A i \in Slots : \A o2 \in Origins :
       (/\ SwitchHandlerStep(i)
        /\ o2 # reqs[i].origin
        /\ getActiveOrDefaultNetwork(db, o2) # NoNetwork) =>
         getActiveOrDefaultNetwork(db', o2) = getActiveOrDefaultNetwork(db, o2)]_vars

\* C6, amended: a chain switch routed for o1 leaves every other origin's
\* stored selection unchanged, and leaves the network resolved for o2
\* unchanged when o1 is not the internal origin or o2 has a selection of its
\* own.
C6_SwitchLeavesOthersSelection ==
  [][\A i \in Slots : \A o2 \in Origins :
       (SwitchHandlerStep(i) /\ o2 # reqs[i].origin) =>
         /\ db'[o2] = db[o2]
         /\ (reqs[i].origin # TALLY_INTERNAL_ORIGIN \/ db[o2] # NoNetwork) =>
              getActiveOrDefaultNetwork(db', o2) = getActiveOrDefaultNetwork(db, o2)]_vars

\* A dApp's switch was stored while another dApp has a different selection.
C6_Witness ==
  \E i \in Slots :
    /\ reqs[i].wrote
    /\ reqs[i].origin \in DappOrigins
    /\ \E o2 \in DappOrigins :
         /\ o2 # reqs[i].origin
         /\ db[o2] # NoNetwork
         /\ db[o2] # db[reqs[i].origin]

\* C7, as claimed: the payload of a transactionSignatureRequest has no nonce
\* when the request supplied one.
C7_SuppliedNonceIsDropped ==
  \A i \in Slots :
    (reqs[i].event = "transactionSignatureRequest"
     /\ reqs[i].wire.nonce # Absent) =>
      reqs[i].payload.nonce = Absent

\* C8: with data and input both present and different the payload's data is
\* the request's data; with only input present it is the request's input.
C8_DataPreferredOverInput ==
  \A i \in Slots :
    reqs[i].event = "transactionSignatureRequest" =>
      /\ (reqs[i].wire.data # Absent /\ reqs[i].wire.input # Absent
          /\ reqs[i].wire.data # reqs[i].wire.input) =>
           reqs[i].payload.data = reqs[i].wire.data
      /\ (reqs[i].wire.data = Absent /\ reqs[i].wire.input # Absent) =>
           reqs[i].payload.data = reqs[i].wire.input

\* A request with data and input that differ reached the UI.
C8_Witness ==
  \E i \in Slots :
    /\ reqs[i].event = "transactionSignatureRequest"
    /\ reqs[i].wire.data = "0xd1"
    /\ reqs[i].wire.input = "0xabc"

\* The buckets of the method router.  eth_chainId and eth_accounts are read
\* calls answered by the broker itself.
SigningBucket == SigningMethods
ChainSwitchBucket == SwitchChainMethods
PassThroughBucket == PassThroughMethods \cup {"eth_chainId", "eth_accounts"}
BucketsOf(method) ==
  {b \in {"signing", "chain-switch", "pass-through", "unsupported"} :
     \/ b = "signing" /\ method \in SigningBucket
     \/ b = "chain-switch" /\ method \in ChainSwitchBucket
     \/ b = "pass-through" /\ method \in PassThroughBucket
     \/ b = "unsupported" /\ method \notin
          (SigningBucket \cup ChainSwitchBucket \cup PassThroughBucket)}

\* C9: every routed method is in exactly one bucket; a request for a method
\* of the unsupported bucket has failed with the unsupported-method error as
\* soon as it is routed, with no gateway call, no broadcast, no UI event and
\* no write to the selection table; a method of another bucket never fails
\* with that error.
C9_UnsupportedMethodsFail ==
  \A i \in Slots :
    reqs[i].pc # "idle" =>
      /\ Cardinality(BucketsOf(reqs[i].method)) = 1
      /\ "unsupported" \in BucketsOf(reqs[i].method) =>
           /\ reqs[i].pc = "done"
           /\ reqs[i].result = Rejected(EIP1193Error("unsupportedMethod"))
           /\ reqs[i].sends = 0
           /\ reqs[i].broadcasts = 0
           /\ reqs[i].event = "none"
           /\ ~reqs[i].wrote
      /\ "unsupported" \notin BucketsOf(reqs[i].method) =>
           reqs[i].result # Rejected(EIP1193Error("unsupportedMethod"))

\* A request for a method of the default branch (listed before it or with no
\* case label at all) was routed.
C9_Witness ==
  \E i \in Slots :
    /\ reqs[i].pc = "done"
    /\ reqs[i].method \in UnknownMethods \cup ListedUnsupportedMethods

\* The switch request in slot i names a chain that is not active and that
\* the gateway cannot activate.
UnsupportedChainRequested(i) ==
  /\ reqs[i].method \in SwitchChainMethods
  /\ reqs[i].pc = "lookup"
  /\ NetworksWithChainId(activeNetworks \cup SupportedNetworks,
                         reqs[i].wire.chainId) = {}

\* C10: the handler of a switch request for such a chain fails with the
\* chain-disconnected error in its next step, which leaves the selection
\* table and the network resolved for the requesting origin as they were.
C10_UnsupportedChainIsRefused ==
  [][\A i \in Slots :
       (UnsupportedChainRequested(i) /\ reqs'[i] # reqs[i]) =>
         /\ reqs'[i].pc = "done"
         /\ reqs'[i].result = Rejected(EIP1193Error("chainDisconnected"))
         /\ ~reqs'[i].wrote
         /\ db' = db
         /\ getActiveOrDefaultNetwork(db', reqs[i].origin) =
              getActiveOrDefaultNetwork(db, reqs[i].origin)]_vars

\* An origin that has a selection was refused an unsupported chain.
C10_Witness ==
  \E i \in Slots :
    /\ reqs[i].method \in SwitchChainMethods
    /\ reqs[i].result = Rejected(EIP1193Error("chainDisconnected"))
    /\ db[reqs[i].origin] # NoNetwork

\* C11: a switch request returns null only after it stored its network; the
\* stored network is the one of the requested chain id, it replaces whatever
\* the origin had selected, and it is what the origin resolves to afterwards;
\* storing the selection the origin already has changes nothing; an origin's
\* selection changes in no other way; and eth_chainId of an origin that has
\* a selection answers with that selection's chain id, as hex.
C11_SwitchPersistsSelection ==
  /\ [](\A i \in Slots :
         (reqs[i].method \in SwitchChainMethods
          /\ reqs[i].result = Fulfilled(Null)) => reqs[i].wrote)
  /\ [][\A i \in Slots :
         (reqs[i].pc = "store" /\ reqs'[i] # reqs[i]) =>
           /\ toHexChainID(reqs[i].found.chainID) =
                toHexChainID(reqs[i].wire.chainId)
           /\ db'[reqs[i].origin] = reqs[i].found
           /\ getActiveOrDefaultNetwork(db', reqs[i].origin) = reqs[i].found
           /\ reqs'[i].result = Fulfilled(Null)
           /\ db[reqs[i].origin] = reqs[i].found => db' = db]_vars
  /\ [][\A o \in Origins :
         db'[o] # db[o] =>
           \E i \in Slots : /\ reqs[i].pc = "store"
                            /\ reqs[i].origin = o
                            /\ reqs'[i].wrote]_vars
  /\ [][\A i \in Slots :
         (/\ reqs[i].method = "eth_chainId"
          /\ reqs[i].pc = "net"
          /\ db[reqs[i].origin] # NoNetwork
          /\ reqs'[i] # reqs[i]) =>
           reqs'[i].result =
             Fulfilled(Val("chainId", "hex", db[reqs[i].origin].chainID.n))]_vars

\* An origin's switch replaced a different selection of that origin.
C11_Witness ==
  \E i \in Slots :
    /\ reqs[i].wrote
    /\ reqs[i].prior # NoNetwork
    /\ reqs[i].prior # reqs[i].found
    /\ db[reqs[i].origin] = reqs[i].found

\* C12, as claimed: eth_chainId of an origin with no selection answers with
\* the hex chain id of the default network (stated for the case in which the
\* internal origin has no selection either, where nothing but the default
\* can be meant).
C12_DefaultChainIdWithoutSelection ==
  [][\A i \in Slots :
       (/\ reqs[i].method = "eth_chainId"
        /\ reqs[i].pc \in {"net", "netInternal"}
        /\ db[reqs[i].origin] = NoNetwork
        /\ db[TALLY_INTERNAL_ORIGIN] = NoNetwork
        /\ reqs'[i].pc = "done") =>
         reqs'[i].result =
           Fulfilled(Val("chainId", "hex", ETHEREUM.chainID.n))]_vars

\* The network C13 claims for an origin: its own selection, else the internal
\* origin's, else the default network.
C13_ClaimedNetwork(table, origin) ==
  IF table[origin] # NoNetwork THEN table[origin]
  ELSE IF table[TALLY_INTERNAL_ORIGIN] # NoNetwork
  THEN table[TALLY_INTERNAL_ORIGIN]
  ELSE ETHEREUM

\* C13, as claimed: the step in which a handler gets its network from
\* getActiveOrDefaultNetwork changes no selection, does not fail inside the
\* resolver, and continues with the claimed network.
C13_ResolverNeverFails ==
  [][\A i \in Slots :
       (/\ reqs[i].pc \in {"net", "netInternal"}
        /\ reqs'[i] # reqs[i]
        /\ reqs'[i].pc # "netInternal") =>
         /\ db' = db
         /\ reqs'[i].result # Rejected(JsError("TypeError"))
         /\ reqs'[i].pc \in {"pending", "gateway"} =>
              reqs'[i].payload.network =
                C13_ClaimedNetwork(db, reqs[i].origin)
         /\ reqs[i].method = "eth_chainId" =>
              reqs'[i].result =
                Fulfilled(Val("chainId", "hex",
                              C13_ClaimedNetwork(db, reqs[i].origin).chainID.n))]_vars

\* C14, as claimed: a finished eth_accounts request made no gateway call and
\* did not fail; its result is the one-element list of the selected
\* account's address, and the empty list when no account is selected.
C14_AccountsNeverFails ==
  \A i \in Slots :
    (reqs[i].method = "eth_accounts" /\ reqs[i].pc = "done"
     /\ reqs[i].selected # "none") =>
      /\ reqs[i].sends = 0
      /\ reqs[i].result.state = "fulfilled"
      /\ reqs[i].selected = Account =>
           reqs[i].result = Fulfilled(Val("accounts", Account, 1))
      /\ reqs[i].selected \in NoAccountAnswers =>
           reqs[i].result = Fulfilled(Val("accounts", "", 0))

\* The request in r is a transaction request whose normalized form has no
\* sender.
C15_NoSender(r) ==
  /\ r.method \in TransactionMethods
  /\ r.pc # "idle"
  /\ signTransactionPayload(transactionArgument(r.method, r.wire),
                            r.origin).from = Absent

\* C15: a transaction request whose normalized form has no sender has failed
\* as soon as it is routed, with no event emitted, nothing broadcast and no
\* selection written, and the step that routes it leaves the selection table
\* and the active networks as they were.
C15_MissingSenderFails ==
  /\ [](\A i \in Slots :
         C15_NoSender(reqs[i]) =>
           /\ reqs[i].pc = "done"
           /\ reqs[i].result.state = "rejected"
           /\ reqs[i].event = "none"
           /\ reqs[i].broadcasts = 0
           /\ reqs[i].sends = 0
           /\ ~reqs[i].wrote)
  /\ [][\A i \in Slots :
         (C15_NoSender(reqs'[i]) /\ reqs'[i] # reqs[i]) =>
           (db' = db /\ activeNetworks' = activeNetworks)]_vars

\* A request without a sender but with everything else failed with the
\* sender error.
C15_Witness ==
  \E i \in Slots :
    /\ C15_NoSender(reqs[i])
    /\ reqs[i].wire.data # Absent
    /\ reqs[i].wire.gas # Absent
    /\ reqs[i].result =
         Rejected(JsError("Error: Transactions must have a from address for signing."))

C17_UserRejected(r) ==
  /\ r.method \in SigningMethods
  /\ r.approval = Rejected(Undefined)
  /\ r.pc = "done"

C18_SessionsKeepTheirOwnState ==
  /\ \A u \in sessions["v1"].handed : parseUri(u) = "1"
  /\ \A u \in sessions["v2"].handed : parseUri(u) = "2"
  /\ \A i \in Slots :
       (reqs[i].path = "wc" /\ reqs[i].pc # "idle"
        /\ reqs[i].sessionUrl # "") =>
         /\ reqs[i].portUrl = reqs[i].sessionUrl
         /\ reqs[i].wcResponse.channel \in {"none", reqs[i].protocol}

\* C19: signClient.approve is never called for a v2 proposal whose
\* requiredNamespaces has no eip155 entry, and once the user's accounts
\* arrive for such a proposal it is rejected toward the peer.
C19_NoAcknowledgmentWithoutEip155 ==
  (sessions["v2"].proposal # "none" /\ ~sessions["v2"].eip155) =>
    /\ sessions["v2"].approves = 0
    /\ sessions["v2"].proposal # "acknowledged"
    /\ sessions["v2"].result = "accounts" =>
         /\ sessions["v2"].proposal = "rejected"
         /\ sessions["v2"].rejects >= 1

\* The user's accounts arrived for a v2 proposal that offers a relay but has
\* no eip155 namespace.
C19_Witness ==
  /\ ~sessions["v2"].eip155
  /\ sessions["v2"].relays
  /\ sessions["v2"].result = "accounts"
  /\ sessions["v2"].rejects = 1

\* C20: a session request that the bridge routed has no response while its
\* result is awaited; once the result is there, one response is posted
\* through the client the request came from: a rejection exactly when the
\* result is an EIP-1193 error, else an approval carrying the result.
C20_ResponseOnOwnChannel ==
  \A i \in Slots :
    (reqs[i].path = "wc" /\ reqs[i].origin # "invalid") =>
      /\ reqs[i].pc # "done" => reqs[i].wcResponse = NoWcResponse
      /\ reqs[i].pc = "done" =>
           /\ reqs[i].wcResponse.channel = reqs[i].protocol
           /\ reqs[i].wcResponse.kind \in {"approval", "rejection"}
           /\ reqs[i].wcResponse.kind = "rejection" <=>
                isEIP1193Error(bridgeResult(reqs[i].result))
           /\ reqs[i].wcResponse.kind = "approval" =>
                reqs[i].wcResponse.payload = bridgeResult(reqs[i].result)
           /\ reqs[i].response = NoVal

\* The user rejected a legacy session's signing request, and the rejection
\* went through the legacy callback.
C20_Witness ==
  \E i \in Slots :
    /\ reqs[i].path = "wc"
    /\ reqs[i].protocol = "v1"
    /\ reqs[i].method = "personal_sign"
    /\ reqs[i].approval = Rejected(Undefined)
    /\ reqs[i].wcResponse = [channel |-> "v1", kind |-> "rejection",
                              payload |-> NoVal]


\* C21: a session request whose translation yields no request is dropped: it
\* is not handed to the provider bridge (no origin is derived for it, nothing
\* is routed, no event is emitted, no gateway call is made), and no approval
\* or rejection is posted for it through either client, whatever arrives on
\* its port.
C21_UntranslatedRequestIsDropped ==
  \A i \in Slots :
    (reqs[i].path = "wc" /\ reqs[i].pc # "idle" /\ reqs[i].method = "none") =>
      /\ reqs[i].pc = "done"
      /\ reqs[i].origin = "none"
      /\ reqs[i].result = Pending
      /\ reqs[i].event = "none"
      /\ reqs[i].sends = 0
      /\ reqs[i].wcResponse = NoWcResponse
      /\ reqs[i].response = NoVal

\* The legacy client delivered a request that did not translate, after the
\* peer had switched its chain.
C21_Witness ==
  \E i \in Slots :
    /\ reqs[i].path = "wc"
    /\ reqs[i].protocol = "v1"
    /\ reqs[i].method = "none"
    /\ reqs[i].pc = "done"
    /\ db["https://dapp-b"] # NoNetwork


\* C22: a performConnection call never raises an error to its caller; a call
\* whose URI does not parse or has a version that is neither 1 nor 2 leaves
\* both clients as they were; a call whose pairing fails connects neither
\* client; and after a failed call a call with a version-1 URI still makes
\* the legacy client, and one with a version-2 URI whose pairing succeeds
\* still pairs signClient.
C22_FailedConnectionIsHarmless ==
  /\ [](~connection.raised)
  /\ [][(connection' # connection
         /\ connection'.outcome \in {"parseFailed", "unhandled"}) =>
          sessions' = sessions]_vars
  /\ [][(connection' # connection /\ connection'.outcome = "pairFailed") =>
          \A p \in Protocols :
            /\ sessions'[p].open = sessions[p].open
            /\ sessions'[p].proposal = sessions[p].proposal]_vars
  /\ [][(connection' # connection /\ connection.failed) =>
          /\ connection'.outcome = "legacy" =>
               (sessions'["v1"].open /\ connection'.uri \in sessions'["v1"].handed)
          /\ connection'.outcome = "paired" =>
               (sessions'["v2"].open /\ connection'.uri \in sessions'["v2"].handed)]_vars

\* After a failed call a version-2 URI was paired, and the peer's proposal
\* came in.
C22_Witness ==
  /\ connection.failed
  /\ connection.outcome = "paired"
  /\ sessions["v2"].open
  /\ sessions["v2"].proposal = "prompting"


\* The handler in r waits for one of its collaborators, not for the user.
C23_CanStep(r) ==
  r.pc \in {"net", "netInternal", "gateway", "broadcast", "lookup", "store"}

\* C23: approvals pending at once are independent.  An invocation of a
\* handle of one approval changes nothing of any other request; a request
\* that finished after its approval settled has the result given to its own
\* approval (the signature, the hash of its own signed transaction, or the
\* rejection); and while another request waits for the user, a handler that
\* waits for a collaborator can take its next step.
C23_PendingApprovalsAreIndependent ==
  /\ [][\A i, j \in Slots :
         (i # j /\ reqs'[i].calls = reqs[i].calls + 1) =>
           reqs'[j] = reqs[j]]_vars
  /\ [](\A i \in Slots :
         (reqs[i].pc = "done" /\ reqs[i].approval.state # "pending") =>
           /\ reqs[i].method = "personal_sign" =>
                reqs[i].result = reqs[i].approval
           /\ reqs[i].method = "eth_sendTransaction" =>
                reqs[i].result \in {Fulfilled(HashOf(reqs[i].approval.val.s)),
                                    Rejected(Undefined)})
  /\ [](\A i, j \in Slots :
         (i # j /\ reqs[j].pc = "pending" /\ reqs[j].approval.state = "pending"
          /\ C23_CanStep(reqs[i])) =>
           ENABLED (\/ ReadOriginNetwork(i) \/ ReadInternalNetwork(i)
                    \/ GatewayReturn(i, TRUE) \/ BroadcastReturn(i, TRUE)
                    \/ SwitchLookup(i) \/ SwitchStore(i)))

\* Two approvals of the same origin were open at once; the later one was
\* resolved and its transaction sent while the earlier one still waits.
C23_Witness ==
  /\ Cardinality(Slots) = 2
  /\ reqs[1].pc = "pending"
  /\ reqs[1].calls = 0
  /\ reqs[2].method = "eth_sendTransaction"
  /\ reqs[2].origin = reqs[1].origin
  /\ reqs[2].result = Fulfilled(HashOf("signedTx-2"))


\* C24: with a request of the internal origin and a request of another origin
\* in flight together, the annotation of each transaction request is decided
\* when it is routed, from its own origin alone: from then on, through every
\* step of either handler, the payload of the other origin's request has no
\* annotation and the payload of the internal origin's request has the
\* decoded annotation which that request supplied.
C24_AnnotationDecidedPerCall ==
  /\ [](\A i \in Slots :
         (reqs[i].method \in TransactionMethods
          /\ reqs[i].pc \in {"net", "netInternal", "pending", "broadcast", "done"}
          /\ reqs[i].result # Rejected(JsError("SyntaxError"))) =>
           reqs[i].payload.annotation =
             IF reqs[i].origin = TALLY_INTERNAL_ORIGIN
                /\ reqs[i].wire.annotation # Absent
             THEN decodeJSON(reqs[i].wire.annotation)
             ELSE Absent)
  /\ [][\A i \in Slots :
         (reqs[i].method \in TransactionMethods /\ ~Free(reqs[i])) =>
           reqs'[i].payload.annotation = reqs[i].payload.annotation]_vars

\* A dApp's request that supplied an annotation arrived while the wallet's
\* own request was suspended, and both reached the UI: the wallet's own with
\* its annotation, the dApp's without.
C24_Witness ==
  /\ Cardinality(Slots) = 2
  /\ reqs[1].origin = TALLY_INTERNAL_ORIGIN
  /\ reqs[1].event = "transactionSignatureRequest"
  /\ reqs[1].payload.annotation = decodeJSON(AnnotationJson)
  /\ reqs[2].origin \in DappOrigins
  /\ reqs[2].event = "transactionSignatureRequest"
  /\ reqs[2].wire.annotation = AnnotationJson
  /\ reqs[2].payload.annotation = Absent


\* C25, as claimed: a v2 proposal whose requiredNamespaces has no eip155
\* entry is rejected in the step that receives it: no port is made for an
\* eth_requestAccounts of it, nothing is awaited from that port, and the
\* peer has its rejection.
C25_NoPromptWithoutEip155 ==
  (sessions["v2"].proposal \notin {"none", "dropped"} /\ ~sessions["v2"].eip155) =>
    /\ sessions["v2"].promptUrl = "none"
    /\ sessions["v2"].messages = 0
    /\ sessions["v2"].proposal = "rejected"
    /\ sessions["v2"].rejects = 1


\* C26, as claimed: for one proposal at most one terminal action is issued
\* to the peer, whatever the port of its account prompt delivers: approve and
\* reject together are called at most once.
C26_AtMostOneTerminalAction ==
  \A p \in Protocols :
    /\ sessions[p].approves + sessions[p].rejects <= 1
    /\ sessions[p].proposal = "acknowledged" => sessions[p].rejects = 0
    /\ sessions[p].proposal = "rejected" => sessions[p].approves = 0


\* C27, as claimed: a proposal on whose account prompt a result has arrived
\* is acknowledged or rejected, with exactly one terminal action issued for
\* that result; an empty account list and a result that is neither a list
\* nor an EIP-1193 error are no exception.
C27_EveryAnsweredProposalEnds ==
  \A p \in Protocols :
    sessions[p].messages = 1 =>
      /\ sessions[p].proposal \in {"acknowledged", "rejected"}
      /\ sessions[p].approves + sessions[p].rejects = 1


\* C28, as claimed: a request for a method of the default branch is answered
\* with the unsupported-method error on every entry path: a direct caller's
\* promise is rejected with it, and the response posted for a message of the
\* internal port carries it as its result.
C28_UnsupportedMethodErrorOnEveryPath ==
  \A i \in Slots :
    (reqs[i].pc = "done"
     /\ reqs[i].method \in ListedUnsupportedMethods \cup UnknownMethods
     /\ reqs[i].origin # "invalid") =>
      /\ reqs[i].result = Rejected(EIP1193Error("unsupportedMethod"))
      /\ reqs[i].path = "port" =>
           reqs[i].response = toJSON(EIP1193Error("unsupportedMethod"))


\* C29, as claimed: while a message of the internal port is being routed no
\* response has reached the port's listeners for it; once the listener has
\* finished with it exactly one has, with the id of that message, whether
\* the routing succeeded or failed and whether or not posting the routing's
\* result threw.
C29_ExactlyOneResponsePerMessage ==
  \A i \in Slots :
    reqs[i].path = "port" =>
      /\ reqs[i].pc # "done" => (reqs[i].posts = 0 /\ reqs[i].delivered = <<>>)
      /\ reqs[i].pc = "done" =>
           /\ Len(reqs[i].delivered) = 1
           /\ reqs[i].delivered[1].id = reqs[i].id


\* C30, as claimed: no request changes the set of active networks; only
\* selections change.
C30_ActiveNetworksNeverChange ==
  [][activeNetworks' = activeNetworks]_vars

\* C30, amended: no chain is added that the gateway does not already
\* support.  The active networks and every origin's selection are supported
\* networks; the active set never loses a network and grows only in the
\* lookup of a chain-switch request, by the supported network of the
\* requested chain id, which the gateway activates; a request for a chain id
\* of no supported network changes neither the active set nor any selection.
C30_OnlySupportedNetworksAreActivated ==
  /\ [](activeNetworks \subseteq SupportedNetworks)
  /\ [](\A o \in Origins : db[o] \in SupportedNetworks \cup {NoNetwork})
  /\ [][/\ activeNetworks \subseteq activeNetworks'
        /\ \A n \in activeNetworks' \ activeNetworks :
             \E i \in Slots :
               /\ reqs[i].method \in SwitchChainMethods
               /\ reqs[i].pc = "lookup"
               /\ reqs'[i].found = n
               /\ n \in SupportedNetworks
               /\ toHexChainID(n.chainID) = toHexChainID(reqs[i].wire.chainId)
               /\ db' = db]_vars
  /\ [](\A i \in Slots :
         (reqs[i].method \in SwitchChainMethods /\ reqs[i].pc = "done"
          /\ NetworksWithChainId(SupportedNetworks, reqs[i].wire.chainId) = {}) =>
           /\ reqs[i].result = Rejected(EIP1193Error("chainDisconnected"))
           /\ ~reqs[i].wrote)

\* wallet_addEthereumChain for the chain of a supported network that was not
\* active: the network is active now and is the origin's selection.
C30_Witness ==
  \E i \in Slots :
    /\ reqs[i].method = "wallet_addEthereumChain"
    /\ reqs[i].pc = "done"
    /\ reqs[i].found = POLYGON
    /\ activeNetworks = {ETHEREUM, POLYGON}
    /\ db[reqs[i].origin] = POLYGON


\* C31: every stored selection is an active network.  The lookup of a
\* chain-switch request asks the gateway to activate a network exactly when
\* no active network has the requested chain id; what it finds was active
\* before the step or was activated in it; a selection changes only in the
\* store step of a request whose lookup found that network; and a request
\* whose activation failed is finished with nothing stored.
C31_StoredNetworkWasActiveOrActivated ==
  /\ [](\A o \in Origins : db[o] # NoNetwork => db[o] \in activeNetworks)
  /\ [][\A i \in Slots :
         (reqs[i].pc = "lookup" /\ reqs'[i] # reqs[i]) =>
           /\ reqs'[i].activation = "none" <=>
                NetworksWithChainId(activeNetworks, reqs[i].wire.chainId) # {}
           /\ reqs'[i].activation = "none" =>
                reqs'[i].found \in activeNetworks
           /\ reqs'[i].activation = "activated" =>
                /\ reqs'[i].found \notin activeNetworks
                /\ reqs'[i].found \in activeNetworks'
           /\ reqs'[i].activation = "failed" =>
                /\ reqs'[i].pc = "done"
                /\ reqs'[i].found = NoNetwork
                /\ activeNetworks' = activeNetworks
           /\ db' = db]_vars
  /\ [][\A o \in Origins :
         db'[o] # db[o] =>
           \E i \in Slots :
             /\ reqs[i].pc = "store"
             /\ reqs[i].activation \in {"none", "activated"}
             /\ reqs[i].found = db'[o]
             /\ reqs[i].found \in activeNetworks]_vars
  /\ [](\A i \in Slots : reqs[i].activation = "failed" => ~reqs[i].wrote)

\* A selection was stored for a network that the request's own lookup had
\* the gateway activate.
C31_Witness ==
  \E i \in Slots :
    /\ reqs[i].activation = "activated"
    /\ reqs[i].wrote
    /\ db[reqs[i].origin] = reqs[i].found
    /\ reqs[i].found = POLYGON


\* C32: an eth_signTransaction request never invokes
\* broadcastSignedTransaction; its caller has no result while the approval is
\* pending; a fulfilled result is the serialization of the signed transaction
\* the user's approval was resolved with; and after a rejected approval the
\* result is that rejection.
C32_SignTransactionNeverBroadcasts ==
  \A i \in Slots :
    (reqs[i].method = "eth_signTransaction" /\ reqs[i].pc # "idle") =>
      /\ reqs[i].broadcasts = 0
      /\ reqs[i].pc # "broadcast"
      /\ reqs[i].sends = 0
      /\ reqs[i].approval.state = "pending" =>
           reqs[i].result.state # "fulfilled"
      /\ reqs[i].result.state = "fulfilled" =>
           /\ reqs[i].approval.state = "fulfilled"
           /\ reqs[i].calls >= 1
           /\ reqs[i].result.val =
                serializeEthersTransaction(reqs[i].approval.val.s)
      /\ reqs[i].approval.state = "rejected" =>
           (reqs[i].pc = "done" /\ reqs[i].result = reqs[i].approval)
      /\ reqs[i].approval.state = "fulfilled" => reqs[i].pc = "done"

\* An eth_signTransaction request returned the serialization of what the UI
\* resolved its approval with.
C32_Witness ==
  \E i \in Slots :
    /\ reqs[i].method = "eth_signTransaction"
    /\ reqs[i].approval = Fulfilled(Val("SignedTransaction", "signedTx-2", 0))
    /\ reqs[i].result = Fulfilled(serializeEthersTransaction("signedTx-2"))


\* The kind of event a signing method announces.
C33_EventOf(method) ==
  CASE method \in TransactionMethods -> "transactionSignatureRequest"
    [] method \in TypedDataMethods -> "signTypedDataRequest"
    [] method \in SignDataMethods -> "signDataRequest"
    [] OTHER -> "none"

\* The request in r passed its validation: a transaction has a sender and a
\* readable annotation, typed data parses.
C33_Valid(r) ==
  /\ r.method \in SigningMethods
  /\ r.method \in TransactionMethods =>
       r.result \notin
         {Rejected(JsError("SyntaxError")),
          Rejected(JsError("Error: Transactions must have a from address for signing."))}
  /\ r.method \in TypedDataMethods => JsonParses(r.wire.p1)

C34_GasLimitIsTheWireGas ==
  \A i \in Slots :
    (reqs[i].method \in TransactionMethods
     /\ reqs[i].pc \in {"net", "netInternal", "pending", "broadcast"}) =>
      /\ reqs[i].payload.gasLimit = reqs[i].wire.gas
      /\ reqs[i].wire.gas = Absent => reqs[i].payload.gasLimit = Absent
      /\ signTransactionPayload(transactionArgument(reqs[i].method, reqs[i].wire),
                                reqs[i].origin).gasLimit = reqs[i].wire.gas

\* A request that supplied gasLimit but no gas reached the UI without a gas
\* limit.
C34_Witness ==
  \E i \in Slots :
    /\ reqs[i].event = "transactionSignatureRequest"
    /\ reqs[i].wire.gasLimit = "0x9999"
    /\ reqs[i].wire.gas = Absent
    /\ reqs[i].payload.gasLimit = Absent


\* The requests that signTransaction and signData serve.
C35_Signs(r) == r.method \in TransactionMethods \cup SignDataMethods

\* C35 as stated: the network in the payload of a transaction or message
\* signing request is the network the resolver would have answered for the
\* origin in the state the request was routed in.
C35_PayloadNetworkIsTheRoutedOne ==
  \A i \in Slots :
    (C35_Signs(reqs[i])
     /\ reqs[i].event \in {"transactionSignatureRequest", "signDataRequest"}) =>
      reqs[i].payload.network = reqs[i].routedNetwork

\* C35, amended: the network in the payload of a transaction or message
\* signing request is the value of the store read that resolved it, a read
\* made after the routing (the origin's own selection, or with none at that
\* read the internal origin's selection at a later read); no step taken
\* while the approval is pending, a chain switch included, changes the
\* payload's network; and a pending approval can be resolved and rejected,
\* which settles it.
C35_PayloadNetworkFixedAtTheRead ==
  /\ [][\A i \in Slots :
         /\ (C35_Signs(reqs[i]) /\ reqs[i].pc = "net"
             /\ reqs'[i].pc = "pending") =>
              reqs'[i].payload.network = db[reqs[i].origin]
         /\ (C35_Signs(reqs[i]) /\ reqs[i].pc = "netInternal"
             /\ reqs'[i].pc = "pending") =>
              reqs'[i].payload.network = db[TALLY_INTERNAL_ORIGIN]
         /\ (C35_Signs(reqs[i]) /\ reqs[i].pc = "pending") =>
              reqs'[i].payload.network = reqs[i].payload.network
         /\ (C35_Signs(reqs[i]) /\ reqs[i].pc = "pending"
             /\ reqs'[i].calls = reqs[i].calls + 1) =>
              /\ reqs'[i].approval.state # "pending"
              /\ reqs'[i].pc # "pending"]_vars
  /\ [](\A i \in Slots :
         (C35_Signs(reqs[i]) /\ reqs[i].pc = "pending") =>
           /\ reqs[i].approval.state = "pending"
           /\ ENABLED UIReject(i)
           /\ \E v \in ApprovalValues(reqs[i]) : ENABLED UIResolve(i, v))

\* An approval is pending with Ethereum in its payload while a switch made by
\* another request has since made Polygon the resolved network of its origin.
C35_Witness ==
  \E i, j \in Slots :
    /\ i # j
    /\ C35_Signs(reqs[i]) /\ reqs[i].pc = "pending"
    /\ reqs[i].approval.state = "pending"
    /\ reqs[i].payload.network = ETHEREUM
    /\ reqs[j].wrote /\ reqs[j].found = POLYGON
    /\ reqs[j].origin \in {reqs[i].origin, TALLY_INTERNAL_ORIGIN}
    /\ getActiveOrDefaultNetwork(db, reqs[i].origin) = POLYGON


\* C36: in every interleaving of the proposals and session requests of two
\* peers, a session request that reaches the provider bridge is routed under
\* the origin of the requester URL which the proposal of its own session
\* supplied.
C36_RequestRoutedUnderItsPeersUrl ==
  \A i \in Slots :
    (reqs[i].path = "wc" /\ reqs[i].origin # "none"
     /\ reqs[i].sessionUrl \notin {"", "none"}) =>
      reqs[i].origin = originOfUrl(reqs[i].sessionUrl)


\* C37: a proposal is prompted for only if it supplies a requester URL
\* itself: a session whose latest proposal supplied none has that proposal
\* dropped, with no prompt made for it, no approval and no rejection sent.
C37_NoPromptWithoutOwnUrl ==
  \A p \in Protocols :
    (sessions[p].proposal # "none" /\ sessions[p].url = "") =>
      /\ sessions[p].proposal = "dropped"
      /\ sessions[p].promptUrl = "none"
      /\ sessions[p].approves = 0
      /\ sessions[p].rejects = 0


\* The entries of a list of accounts, as a set.
C38_Entries(accounts) == {accounts[k] : k \in 1..Len(accounts)}

\* C38: each time acknowledgeProposal runs for a version-2 proposal that has
\* the eip155 namespace (a non-empty account list arrived on its port): if
\* the proposal offers a relay, approve is called once, its namespace lists
\* one account entry for every pair of a requested chain and a selected
\* account and nothing else, with the methods and events the proposal
\* required, and acknowledged() is awaited, with no reject call; if it offers
\* no relay, approve is not called and reject is called once.
C38_ApproveCarriesEveryChainAndAccount ==
  [][LET old == sessions["v2"]
         new == sessions'["v2"]
         selected == selectedAccountsOf(new.result)
         chains == old.required.chains
     IN  (new.messages = old.messages + 1 /\ selected # <<>> /\ old.eip155) =>
           IF old.relays
           THEN /\ new.approves = old.approves + 1
                /\ new.rejects = old.rejects
                /\ new.awaited = old.awaited + 1
                /\ DOMAIN new.approved.namespaces = {"eip155"}
                /\ Len(new.approved.namespaces.eip155.accounts)
                     = Len(chains) * Len(selected)
                /\ C38_Entries(new.approved.namespaces.eip155.accounts)
                     = {chains[k] \o ":" \o selected[m] :
                          k \in 1..Len(chains), m \in 1..Len(selected)}
                /\ new.approved.namespaces.eip155.methods = old.required.methods
                /\ new.approved.namespaces.eip155.events = old.required.events
                /\ new.proposal = "acknowledged"
           ELSE /\ new.approves = old.approves
                /\ new.approved = old.approved
                /\ new.awaited = old.awaited
                /\ new.rejects = old.rejects + 1
                /\ new.proposal = "rejected"]_vars

\* A proposal for two chains was approved with two selected accounts: four
\* entries.
C38_Witness ==
  /\ sessions["v2"].approves = 1
  /\ sessions["v2"].result = "twoAccounts"
  /\ Len(sessions["v2"].required.chains) = 2
  /\ Len(sessions["v2"].approved.namespaces.eip155.accounts) = 4
  /\ sessions["v2"].awaited = 1


\* The indices of a call's abilities which the database reported as new.
C39_ReportedNew(p) == {k \in DOMAIN p.reports : p.reports[k] = "new"}

\* C39: with the feature enabled a pollForAbilities call emits newAbilities
\* at most once, only when the database reported one of its abilities as
\* new, and the list emitted has exactly the abilities reported as new in
\* that call, each as often as it was reported; with the feature disabled a
\* call fetches nothing, adds nothing to the database and emits nothing.
C39_EmitsExactlyTheNewAbilities ==
  /\ [](\A c \in PollIds :
         LET p == abilities.polls[c]
         IN  /\ p.emits <= 1
             /\ p.emits = 1 =>
                  /\ abilities.enabled
                  /\ C39_ReportedNew(p) # {}
                  /\ Len(p.emitted) = Cardinality(C39_ReportedNew(p))
                  /\ \A k \in DOMAIN p.normalized :
                       Cardinality({m \in DOMAIN p.emitted :
                                      p.emitted[m] = p.normalized[k]})
                         = Cardinality({m \in C39_ReportedNew(p) :
                                          p.normalized[m] = p.normalized[k]})
             /\ ~abilities.enabled =>
                  /\ p.fetches = 0 /\ p.adds = 0 /\ p.emits = 0
                  /\ p.pc \in {"idle", "done"})
  /\ [][~abilities.enabled => abilities'.db = abilities.db]_vars

\* A call fetched two abilities of which the database had one, and emitted
\* the other alone.
C39_Witness ==
  \E c \in PollIds :
    /\ abilities.polls[c].emits = 1
    /\ Len(abilities.polls[c].normalized) = 2
    /\ Len(abilities.polls[c].emitted) = 1
    /\ \E k \in DOMAIN abilities.polls[c].reports :
         abilities.polls[c].reports[k] = "known"

=============================================================================
